---- MODULE Spec2Model ----
(***************************************************************************)
(* Model of the git-indexer's structural chunker                           *)
(* (images/git-indexer/indexer.py): redaction, the per-file-type chunkers, *)
(* the Go scanner, the dispatcher with its oversize guard, and the loop of *)
(* index_repo that collects the chunks of a file for embedding; a run of   *)
(* index_repo against the vector store, _embed_single, the _TTLCache of    *)
(* rag_pipeline.py and get_argocd_token of hack/get-kubeconfig.py.         *)
(*                                                                         *)
(* A text is a sequence of one-character strings.  Indices follow Python:  *)
(* At(t, k) is t[k] and PySlice(t, a, b) is t[a:b], both 0-based.          *)
(***************************************************************************)
EXTENDS Integers, Sequences, FiniteSets, TLC

VARIABLES
    text,             \* the file text handed to the chunker
    filepath,         \* the file path handed to the chunker
    pc,               \* position in the program
    EMBED_MAX_CHARS,  \* the configured character budget (environment)
    CHUNK_MAX_TOKENS, \* the configured token budget of chunk_generic (environment)
    i,                \* chunk_go: index of the character the scan is at
    line_start,       \* chunk_go: index of the first character of the current line
    brace_depth,      \* chunk_go: brace nesting depth
    in_string,        \* chunk_go: inside a double-quoted string
    in_raw_string,    \* chunk_go: inside a back-quoted string
    in_line_comment,  \* chunk_go: inside a // comment
    in_block_comment, \* chunk_go: inside a /* */ comment
    boundaries,       \* chunk_go, chunk_python: the declaration boundaries found
    preamble,         \* chunk_go, chunk_python: the trimmed text before the first boundary
    tagged,           \* classify_and_chunk: the chunks of the chunker, with chunk_type
    final,            \* classify_and_chunk: the chunks returned
    once,             \* redact_secrets(text)
    twice,            \* redact_secrets(redact_secrets(text))
    all_texts,        \* index_repo: the search texts collected for embedding
    all_metadata,     \* index_repo: the payload metadata collected with them
    _store,           \* _TTLCache: key -> (timestamp, value)
    _lock,            \* _TTLCache: the thread that holds the lock, or "none"
    now,              \* the clock (time.monotonic, time.time)
    threads,          \* _TTLCache: each calling thread's position and locals
    last_set,         \* history: per key, the last set not followed by a clear
    token,            \* get_argocd_token: the local token
    refreshed,        \* history: _refresh_token was called
    last_sha,         \* the commit SHA stored in the repository's metadata point
    old_sha,          \* history: the stored SHA when index_repo was called
    points,           \* the chunk points of the vector store
    head_tree,        \* the work tree at HEAD: per changed file, what index_repo finds
    eligible_files,   \* index_repo: eligible_files
    todo,             \* index_repo: the files the loop has not reached yet
    run_metadata,     \* index_repo: all_metadata over the whole run
    batch_i,          \* index_repo: i of the batch loop
    attempt,          \* _embed_single: attempt
    posts,            \* history: what the POST requests of the call came to, in order
    resp,             \* _embed_single: what the last POST came to
    result            \* _embed_single: what the call returned

scanVars == <<i, line_start, brace_depth, in_string, in_raw_string, in_line_comment,
              in_block_comment>>

configVars == <<EMBED_MAX_CHARS, CHUNK_MAX_TOKENS>>

redactVars == <<once, twice>>

indexVars == <<all_texts, all_metadata>>

chunkerData == <<text, filepath, configVars, scanVars, boundaries, preamble, tagged, final,
                 redactVars, indexVars>>

chunkerVars == <<chunkerData, pc>>

cacheVars == <<_store, _lock, now, threads, last_set>>

cacheData == <<_store, _lock, threads, last_set>>

tokenVars == <<token, refreshed>>

runVars == <<last_sha, old_sha, points, head_tree, eligible_files, todo, run_metadata, batch_i>>

embedVars == <<attempt, posts, resp, result>>

laterVars == <<tokenVars, runVars, embedVars>>

otherVars == <<cacheVars, laterVars>>

vars == <<text, filepath, pc, configVars, scanVars, boundaries, preamble, tagged, final,
          redactVars, indexVars, otherVars>>

\* ---------------------------------------------------------------- strings

At(t, k) == t[k + 1]

Min(a, b) == IF a < b THEN a ELSE b

Max(a, b) == IF a > b THEN a ELSE b

PySlice(t, a, b) == SubSeq(t, Max(a, 0) + 1, Min(b, Len(t)))

IsSpace(c) == c \in {" ", "\t", "\n", "\r"}

LowerTab ==
    [c \in {"A", "B", "C", "D", "E", "F", "G", "H", "I", "J", "K", "L", "M",
            "N", "O", "P", "Q", "R", "S", "T", "U", "V", "W", "X", "Y", "Z"} |->
        CASE c = "A" -> "a" [] c = "B" -> "b" [] c = "C" -> "c" [] c = "D" -> "d"
          [] c = "E" -> "e" [] c = "F" -> "f" [] c = "G" -> "g" [] c = "H" -> "h"
          [] c = "I" -> "i" [] c = "J" -> "j" [] c = "K" -> "k" [] c = "L" -> "l"
          [] c = "M" -> "m" [] c = "N" -> "n" [] c = "O" -> "o" [] c = "P" -> "p"
          [] c = "Q" -> "q" [] c = "R" -> "r" [] c = "S" -> "s" [] c = "T" -> "t"
          [] c = "U" -> "u" [] c = "V" -> "v" [] c = "W" -> "w" [] c = "X" -> "x"
          [] c = "Y" -> "y" [] c = "Z" -> "z"]

IsUpper(c) == c \in DOMAIN LowerTab

LowerChar(c) == IF IsUpper(c) THEN LowerTab[c] ELSE c

Lower(t) == [k \in 1..Len(t) |-> LowerChar(t[k])]

\* t[k:].startswith(w)
StartsWithAt(t, k, w) == k + Len(w) <= Len(t) /\ PySlice(t, k, k + Len(w)) = w

\* the same, ignoring case (re.IGNORECASE on a lower-case literal)
StartsWithAtI(t, k, w) == k + Len(w) <= Len(t) /\ Lower(PySlice(t, k, k + Len(w))) = w

RECURSIVE Flatten(_)
Flatten(ss) == IF ss = <<>> THEN <<>> ELSE Head(ss) \o Flatten(Tail(ss))

\* every sequence of at most n elements of F
SeqsUpTo(F, n) == UNION {[1..k -> F] : k \in 0..n}

\* c in t
Has(t, c) == \E k \in 1..Len(t) : t[k] = c

\* first index of c in t (0-based); c occurs in t
RECURSIVE IndexOf(_, _, _)
IndexOf(t, c, k) == IF At(t, k) = c THEN k ELSE IndexOf(t, c, k + 1)

\* index after the maximal run of \s starting at k
RECURSIVE SkipSpace(_, _)
SkipSpace(t, k) == IF k < Len(t) /\ IsSpace(At(t, k)) THEN SkipSpace(t, k + 1) ELSE k

\* index after the maximal run of \S starting at k
RECURSIVE SkipNonSpace(_, _)
SkipNonSpace(t, k) == IF k < Len(t) /\ ~IsSpace(At(t, k)) THEN SkipNonSpace(t, k + 1) ELSE k

\* index after the maximal run of [A-Z ] starting at k
RECURSIVE SkipUpperSp(_, _)
SkipUpperSp(t, k) ==
    IF k < Len(t) /\ (IsUpper(At(t, k)) \/ At(t, k) = " ") THEN SkipUpperSp(t, k + 1) ELSE k

\* ------------------------------------------------------------- redaction

W_token == <<"t", "o", "k", "e", "n">>
W_password == <<"p", "a", "s", "s", "w", "o", "r", "d">>
W_secret == <<"s", "e", "c", "r", "e", "t">>
W_apikey == <<"a", "p", "i", "k", "e", "y">>
W_api_key == <<"a", "p", "i", "_", "k", "e", "y">>
W_client_secret == <<"c", "l", "i", "e", "n", "t", "_">> \o W_secret
W_authorization == <<"a", "u", "t", "h", "o", "r", "i", "z", "a", "t", "i", "o", "n">>
W_bearer == <<"b", "e", "a", "r", "e", "r">>
W_dashes == <<"-", "-", "-", "-", "-">>
W_BEGIN == W_dashes \o <<"B", "E", "G", "I", "N">>
W_END == W_dashes \o <<"E", "N", "D">>
W_REDACTED == <<"<", "R", "E", "D", "A", "C", "T", "E", "D", ">">>

SecretWords ==
    {W_token, W_password, W_secret, W_apikey, W_api_key, W_client_secret, W_authorization}

\* (token|...|authorization)\s*[:=]\s*\S+ anchored at p: the end of the match, or -1.
\* No secret word is a prefix of another, so at most one alternative matches at p.
MatchKeyValue(t, p) ==
    LET ws == {w \in SecretWords : StartsWithAtI(t, p, w)}
    IN  IF ws = {} THEN -1
        ELSE LET w == CHOOSE w \in ws : TRUE
                 q == SkipSpace(t, p + Len(w))
             IN  IF q < Len(t) /\ At(t, q) \in {":", "="}
                 THEN LET r == SkipSpace(t, q + 1)
                          e == SkipNonSpace(t, r)
                      IN  IF e > r THEN e ELSE -1
                 ELSE -1

\* Bearer\s+\S+ anchored at p: the end of the match, or -1
MatchBearer(t, p) ==
    IF StartsWithAtI(t, p, W_bearer)
    THEN LET q == p + Len(W_bearer)
             r == SkipSpace(t, q)
             e == SkipNonSpace(t, r)
         IN  IF r > q /\ e > r THEN e ELSE -1
    ELSE -1

\* -----BEGIN[A-Z ]+----- (or END) anchored at p: the end of the header, or -1
MatchPemHeader(t, p, word) ==
    IF StartsWithAt(t, p, word)
    THEN LET a == p + Len(word)
             b == SkipUpperSp(t, a)
         IN  IF b > a /\ StartsWithAt(t, b, W_dashes) THEN b + Len(W_dashes) ELSE -1
    ELSE -1

\* [\s\S]*?-----END[A-Z ]+----- from k: the end of the first END header, or -1
RECURSIVE FirstPemEnd(_, _)
FirstPemEnd(t, k) ==
    IF k >= Len(t) THEN -1
    ELSE IF MatchPemHeader(t, k, W_END) /= -1 THEN MatchPemHeader(t, k, W_END)
    ELSE FirstPemEnd(t, k + 1)

MatchPem(t, p) ==
    LET c == MatchPemHeader(t, p, W_BEGIN)
    IN  IF c = -1 THEN -1 ELSE FirstPemEnd(t, c)

\* SECRET_PATTERNS[n] anchored at p
MatchPattern(n, t, p) ==
    CASE n = 1 -> MatchKeyValue(t, p)
      [] n = 2 -> MatchBearer(t, p)
      [] n = 3 -> MatchPem(t, p)

\* the lambda of redact_secrets applied to the matched text m
Replacement(m) ==
    IF Has(m, ":")
    THEN PySlice(m, 0, IndexOf(m, ":", 0)) \o <<":", " ">> \o W_REDACTED
    ELSE W_REDACTED

\* pat.sub(lambda, t): leftmost non-overlapping matches, scanning from pos
RECURSIVE SubFrom(_, _, _)
SubFrom(n, t, pos) ==
    IF pos >= Len(t) THEN <<>>
    ELSE LET e == MatchPattern(n, t, pos)
         IN  IF e /= -1
             THEN Replacement(PySlice(t, pos, e)) \o SubFrom(n, t, e)
             ELSE <<At(t, pos)>> \o SubFrom(n, t, pos + 1)

redact_secrets(t) == SubFrom(3, SubFrom(2, SubFrom(1, t, 0), 0), 0)

\* ------------------------------------------------------- more string helpers

IsLower(c) == \E u \in DOMAIN LowerTab : LowerTab[u] = c

IsDigit(c) == c \in {"0", "1", "2", "3", "4", "5", "6", "7", "8", "9"}

\* \w
IsWord(c) == IsUpper(c) \/ IsLower(c) \/ IsDigit(c) \/ c = "_"

\* index after the maximal run of \w starting at k
RECURSIVE SkipWord(_, _)
SkipWord(t, k) == IF k < Len(t) /\ IsWord(At(t, k)) THEN SkipWord(t, k + 1) ELSE k

\* index after the maximal run of characters other than c starting at k
RECURSIVE SkipNot(_, _, _)
SkipNot(t, c, k) == IF k < Len(t) /\ At(t, k) /= c THEN SkipNot(t, c, k + 1) ELSE k

\* str.lstrip(), str.rstrip(), str.strip()
LStrip(t) == PySlice(t, SkipSpace(t, 0), Len(t))

RECURSIVE RStrip(_)
RStrip(t) == IF t /= <<>> /\ IsSpace(t[Len(t)]) THEN RStrip(SubSeq(t, 1, Len(t) - 1)) ELSE t

Strip(t) == RStrip(LStrip(t))

\* t.rfind(c, lo, hi): the highest k in lo..hi-1 with t[k] = c, or -1
RFind(t, c, lo, hi) ==
    LET ks == {k \in lo..(Min(hi, Len(t)) - 1) : At(t, k) = c}
    IN  IF ks = {} THEN -1 ELSE CHOOSE k \in ks : \A m \in ks : m <= k

\* sep.join(parts)
RECURSIVE Join(_, _)
Join(parts, sep) ==
    IF parts = <<>> THEN <<>>
    ELSE IF Len(parts) = 1 THEN parts[1]
    ELSE parts[1] \o sep \o Join(Tail(parts), sep)

\* str(n) for n >= 0
DigitChar(d) ==
    CASE d = 0 -> "0" [] d = 1 -> "1" [] d = 2 -> "2" [] d = 3 -> "3" [] d = 4 -> "4"
      [] d = 5 -> "5" [] d = 6 -> "6" [] d = 7 -> "7" [] d = 8 -> "8" [] d = 9 -> "9"

RECURSIVE DecStr(_)
DecStr(n) == IF n < 10 THEN <<DigitChar(n)>> ELSE DecStr(n \div 10) \o <<DigitChar(n % 10)>>

\* the line starts of t: 0 and every index after a "\n" (re.MULTILINE ^)
LineStarts(t) == {0} \cup {k \in 1..Len(t) : At(t, k - 1) = "\n"}

\* ------------------------------------------------------- Go-aware chunking

\* the back quote character, which a string of this notation cannot hold
BackQuote == "<backquote>"

W_func == <<"f", "u", "n", "c">>
W_type == <<"t", "y", "p", "e">>
W_var == <<"v", "a", "r">>
W_const == <<"c", "o", "n", "s", "t">>
W_package == <<"p", "a", "c", "k", "a", "g", "e">>
W_slashes == <<"/", "/">>
W_unknown == <<"u", "n", "k", "n", "o", "w", "n">>
W_function == <<"f", "u", "n", "c", "t", "i", "o", "n">>
W_method == <<"m", "e", "t", "h", "o", "d">>
W_decl_ == <<"d", "e", "c", "l", "_">>
W_exported == <<"/", "/", " ", "E", "x", "p", "o", "r", "t", "e", "d", " ",
                "s", "y", "m", "b", "o", "l", "s", ":", " ">>

GoKeywords == {W_func, W_type, W_var, W_const}

\* re.search(r"^package\s+(\w+)", text, re.MULTILINE): group 1, or ""
_extract_go_package(t) ==
    LET hits == {k \in LineStarts(t) :
                    /\ StartsWithAt(t, k, W_package)
                    /\ SkipSpace(t, k + Len(W_package)) > k + Len(W_package)
                    /\ SkipWord(t, SkipSpace(t, k + Len(W_package)))
                         > SkipSpace(t, k + Len(W_package))}
    IN  IF hits = {} THEN <<>>
        ELSE LET k == CHOOSE k \in hits : \A m \in hits : k <= m
                 a == SkipSpace(t, k + Len(W_package))
             IN  PySlice(t, a, SkipWord(t, a))

\* index after the leading run (//[^\n]*\n)+ of t, from k (0 at first)
RECURSIVE SkipCommentLines(_, _)
SkipCommentLines(t, k) ==
    IF StartsWithAt(t, k, W_slashes) /\ SkipNot(t, "\n", k) < Len(t)
    THEN SkipCommentLines(t, SkipNot(t, "\n", k) + 1)
    ELSE k

\* re.match(kw\s+(\w+), s): group 1, or <<>> when there is no match
KeywordName(s, kw) ==
    IF StartsWithAt(s, 0, kw)
    THEN LET a == SkipSpace(s, Len(kw))
         IN  IF a > Len(kw) THEN PySlice(s, a, SkipWord(s, a)) ELSE <<>>
    ELSE <<>>

\* re.match(r"func\s+\([^)]+\)\s+(\w+)", s): group 1, or <<>>
MethodName(s) ==
    IF StartsWithAt(s, 0, W_func)
    THEN LET a == SkipSpace(s, Len(W_func))
         IN  IF a > Len(W_func) /\ a < Len(s) /\ At(s, a) = "("
             THEN LET b == SkipNot(s, ")", a + 1)
                  IN  IF b > a + 1 /\ b < Len(s)
                      THEN LET c == SkipSpace(s, b + 1)
                           IN  IF c > b + 1 THEN PySlice(s, c, SkipWord(s, c)) ELSE <<>>
                      ELSE <<>>
             ELSE <<>>
    ELSE <<>>

\* _go_symbol_name(decl_text): <<name, symbol_type>>
_go_symbol_name(decl_text) ==
    LET stripped == LStrip(PySlice(decl_text, SkipCommentLines(decl_text, 0), Len(decl_text)))
    IN  IF MethodName(stripped) /= <<>> THEN <<MethodName(stripped), W_method>>
        ELSE IF KeywordName(stripped, W_func) /= <<>>
             THEN <<KeywordName(stripped, W_func), W_function>>
        ELSE IF KeywordName(stripped, W_type) /= <<>>
             THEN <<KeywordName(stripped, W_type), W_type>>
        ELSE IF KeywordName(stripped, W_var) /= <<>>
             THEN <<KeywordName(stripped, W_var), W_var>>
        ELSE IF KeywordName(stripped, W_const) /= <<>>
             THEN <<KeywordName(stripped, W_const), W_const>>
        ELSE <<<<>>, W_unknown>>

\* brace tracking without the floor at 0
GoBraceDepthUnfloored(depth, ch) ==
    IF ch = "{" THEN depth + 1
    ELSE IF ch = "}" THEN depth - 1
    ELSE depth

\* the brace tracking of the scan: the depth after reading ch outside strings/comments
GoBraceDepth(depth, ch) ==
    IF ch = "{" THEN depth + 1
    ELSE IF ch = "}" THEN Max(0, depth - 1)
    ELSE depth

\* re.match(r"(func |type |var |const )", text[i:])
GoIsDecl(t, k) == \E kw \in GoKeywords : StartsWithAt(t, k, kw \o <<" ">>)

\* the backward walk: j after a step from j over a comment line
GoWalkNextJ(t, j) == IF RFind(t, "\n", 0, j) >= 0 THEN RFind(t, "\n", 0, j) - 1 ELSE -1

\* the backward walk over the comment lines above position i: the final decl_start
RECURSIVE GoWalkBack(_, _, _)
GoWalkBack(t, j, decl_start) ==
    IF j < 0 THEN decl_start
    ELSE LET prev_newline == RFind(t, "\n", 0, j)
             prev_line == IF prev_newline >= 0
                          THEN Strip(PySlice(t, prev_newline + 1, j + 1))
                          ELSE Strip(PySlice(t, 0, j + 1))
         IN  IF StartsWithAt(prev_line, 0, W_slashes)
             THEN GoWalkBack(t,
                             GoWalkNextJ(t, j),
                             IF prev_newline >= 0 THEN prev_newline + 1 ELSE 0)
             ELSE decl_start

GoDeclStart(t, k) == GoWalkBack(t, k - 1, k)

\* the scanner's locals before the first iteration
GoScanInit ==
    [i |-> 0, line_start |-> 0, brace_depth |-> 0, in_string |-> FALSE,
     in_raw_string |-> FALSE, in_line_comment |-> FALSE, in_block_comment |-> FALSE,
     boundaries |-> <<>>]

\* an iteration that leaves i where it is
GoScanStepStuck(t, s) == [s EXCEPT !.in_line_comment = ~s.in_line_comment]

\* one iteration of the scan loop, for s.i < Len(t)
GoScanStep(t, s) ==
    LET ch == At(t, s.i)
        more == s.i + 1 < Len(t)
        nxt == IF more THEN At(t, s.i + 1) ELSE ""
    IN  IF ch = "\n"
        THEN [s EXCEPT !.in_line_comment = FALSE, !.line_start = s.i + 1, !.i = s.i + 1]
        ELSE IF s.in_line_comment
        THEN [s EXCEPT !.i = s.i + 1]
        ELSE IF s.in_block_comment
        THEN IF ch = "*" /\ more /\ nxt = "/"
             THEN [s EXCEPT !.in_block_comment = FALSE, !.i = s.i + 2]
             ELSE [s EXCEPT !.i = s.i + 1]
        ELSE IF ch = "/" /\ more /\ nxt = "/"
        THEN [s EXCEPT !.in_line_comment = TRUE, !.i = s.i + 2]
        ELSE IF ch = "/" /\ more /\ nxt = "*"
        THEN [s EXCEPT !.in_block_comment = TRUE, !.i = s.i + 2]
        ELSE IF s.in_string
        THEN IF ch = "\\" /\ more
             THEN [s EXCEPT !.i = s.i + 2]
             ELSE IF ch = "\""
             THEN [s EXCEPT !.in_string = FALSE, !.i = s.i + 1]
             ELSE [s EXCEPT !.i = s.i + 1]
        ELSE IF s.in_raw_string
        THEN IF ch = BackQuote
             THEN [s EXCEPT !.in_raw_string = FALSE, !.i = s.i + 1]
             ELSE [s EXCEPT !.i = s.i + 1]
        ELSE IF ch = "\""
        THEN [s EXCEPT !.in_string = TRUE, !.i = s.i + 1]
        ELSE IF ch = BackQuote
        THEN [s EXCEPT !.in_raw_string = TRUE, !.i = s.i + 1]
        ELSE LET depth == GoBraceDepth(s.brace_depth, ch)
             IN  [s EXCEPT !.brace_depth = depth,
                           !.boundaries =
                               IF depth = 0 /\ s.i = s.line_start /\ GoIsDecl(t, s.i)
                               THEN Append(@, GoDeclStart(t, s.i))
                               ELSE @,
                           !.i = s.i + 1]

\* the whole scan loop
RECURSIVE GoScanAll(_, _)
GoScanAll(t, s) == IF s.i < Len(t) THEN GoScanAll(t, GoScanStep(t, s)) ELSE s

GoBoundaries(t) == GoScanAll(t, GoScanInit).boundaries

\* a slice that stops one character short of the next boundary or the end
GoDeclSliceShort(t, bs, k) ==
    PySlice(t, bs[k], (IF k < Len(bs) THEN bs[k + 1] ELSE Len(t)) - 1)

\* text[b:end] of the k-th boundary (1-based k): up to the next boundary or the end
GoDeclSlice(t, bs, k) == PySlice(t, bs[k], IF k < Len(bs) THEN bs[k + 1] ELSE Len(t))

\* preamble = text[: boundaries[0]].strip()
GoPreamble(t, bs) == Strip(PySlice(t, 0, bs[1]))

\* re.findall of a double-quoted non-empty run: the quoted strings of s, scanning from k
RECURSIVE FindQuoted(_, _)
FindQuoted(s, k) ==
    IF k >= Len(s) THEN <<>>
    ELSE IF At(s, k) = "\"" /\ SkipNot(s, "\"", k + 1) > k + 1 /\ SkipNot(s, "\"", k + 1) < Len(s)
         THEN <<PySlice(s, k + 1, SkipNot(s, "\"", k + 1))>> \o FindQuoted(s, SkipNot(s, "\"", k + 1) + 1)
         ELSE FindQuoted(s, k + 1)

ImportSummaryMax == 20

\* import_summary: the first 20 imports, comma-joined, with "(+N more)" beyond
GoImportSummary(pre) ==
    LET imports == FindQuoted(pre, 0)
        shown == SubSeq(imports, 1, Min(Len(imports), ImportSummaryMax))
    IN  Join(shown, <<",", " ">>)
        \o (IF Len(imports) > ImportSummaryMax
            THEN <<" ", "(", "+">> \o DecStr(Len(imports) - ImportSummaryMax)
                 \o <<" ", "m", "o", "r", "e", ")">>
            ELSE <<>>)

\* the "<symbol_type> <name>" entries of every declaration, exported or not
RECURSIVE GoExportedAll(_, _, _)
GoExportedAll(t, bs, k) ==
    IF k > Len(bs) THEN <<>>
    ELSE LET sym == _go_symbol_name(GoDeclSlice(t, bs, k))
         IN  <<sym[2] \o <<" ">> \o sym[1]>> \o GoExportedAll(t, bs, k + 1)

\* the "<symbol_type> <name>" entries of the exported declarations, from the k-th on
RECURSIVE GoExported(_, _, _)
GoExported(t, bs, k) ==
    IF k > Len(bs) THEN <<>>
    ELSE LET sym == _go_symbol_name(GoDeclSlice(t, bs, k))
         IN  (IF sym[1] /= <<>> /\ IsUpper(sym[1][1])
              THEN <<sym[2] \o <<" ">> \o sym[1]>>
              ELSE <<>>)
             \o GoExported(t, bs, k + 1)

\* the file_overview chunk
GoOverviewChunk(t, path, bs) ==
    LET pre == GoPreamble(t, bs)
        symbols == GoExported(t, bs, 1)
        overview_lines == <<pre, <<>>>> \o
            (IF symbols /= <<>> THEN <<W_exported \o Join(symbols, <<",", " ">>)>> ELSE <<>>)
    IN  [text |-> Join(overview_lines, <<"\n">>), language |-> "go",
         package |-> _extract_go_package(t), symbol |-> path,
         symbol_type |-> "file_overview", imports |-> GoImportSummary(pre)]

\* the name of a symbol_type given as characters
TypeName(w) ==
    CASE w = W_method -> "method" [] w = W_function -> "function" [] w = W_type -> "type"
      [] w = W_var -> "var" [] w = W_const -> "const" [] w = W_unknown -> "unknown"

\* the chunk of the k-th declaration (1-based; the code's index is k - 1)
GoDeclChunk(t, bs, k) ==
    LET decl_text == RStrip(GoDeclSlice(t, bs, k))
        sym == _go_symbol_name(decl_text)
    IN  [text |-> decl_text, language |-> "go", package |-> _extract_go_package(t),
         symbol |-> IF sym[1] /= <<>> THEN sym[1] ELSE W_decl_ \o DecStr(k - 1),
         symbol_type |-> TypeName(sym[2])]

\* chunk_go after the scan with the whole-file chunk trimmed
GoChunksTrimmed(t, path, bs) ==
    IF bs = <<>>
    THEN <<[text |-> Strip(t), language |-> "go", package |-> _extract_go_package(t),
            symbol |-> path, symbol_type |-> "file"]>>
    ELSE (IF GoPreamble(t, bs) /= <<>> THEN <<GoOverviewChunk(t, path, bs)>> ELSE <<>>)
         \o [k \in 1..Len(bs) |-> GoDeclChunk(t, bs, k)]

\* chunk_go after the scan, given the boundaries it found
GoChunks(t, path, bs) ==
    IF bs = <<>>
    THEN <<[text |-> t, language |-> "go", package |-> _extract_go_package(t),
            symbol |-> path, symbol_type |-> "file"]>>
    ELSE (IF GoPreamble(t, bs) /= <<>> THEN <<GoOverviewChunk(t, path, bs)>> ELSE <<>>)
         \o [k \in 1..Len(bs) |-> GoDeclChunk(t, bs, k)]

chunk_go(t, path) == GoChunks(t, path, GoBoundaries(t))

\* ------------------------------------------------------------- line splitting

\* index after the first line of t from k: str.splitlines(keepends=True) breaks after
\* "\n", "\r\n" and "\r"
LineEnd(t, k) ==
    LET e == CHOOSE e \in k..Len(t) :
                 /\ \A m \in k..(e - 1) : At(t, m) \notin {"\n", "\r"}
                 /\ (e = Len(t) \/ At(t, e) \in {"\n", "\r"})
    IN  IF e = Len(t) THEN e
        ELSE IF At(t, e) = "\r" /\ e + 1 < Len(t) /\ At(t, e + 1) = "\n" THEN e + 2
        ELSE e + 1

\* t.splitlines(keepends=True), from index k
RECURSIVE SplitLinesFrom(_, _)
SplitLinesFrom(t, k) ==
    IF k >= Len(t) THEN <<>>
    ELSE <<PySlice(t, k, LineEnd(t, k))>> \o SplitLinesFrom(t, LineEnd(t, k))

SplitLines(t) == SplitLinesFrom(t, 0)

\* ------------------------------------------------------------ token counting

TokenChars == 4

\* count_tokens(text)
count_tokens(t) == Len(t) \div TokenChars

\* --------------------------------------------------------- markdown chunking

\* re.match(r"^#{1,2}\s+", line)
MdIsHeading(line) ==
    /\ Len(line) >= 2
    /\ line[1] = "#"
    /\ \/ IsSpace(line[2])
       \/ (line[2] = "#" /\ Len(line) >= 3 /\ IsSpace(line[3]))

\* s.lstrip("#")
RECURSIVE LStripHash(_)
LStripHash(t) == IF t /= <<>> /\ t[1] = "#" THEN LStripHash(Tail(t)) ELSE t

\* line.strip().lstrip("#").strip()
MdHeadingText(line) == Strip(LStripHash(Strip(line)))

\* a flush that emits a chunk for every section that has lines, blank or not
MdFlushBlank(chunks, heading, lines) ==
    IF lines /= <<>>
    THEN Append(chunks, [text |-> <<"#", " ">> \o heading \o <<"\n", "\n">>
                                  \o Strip(Flatten(lines)),
                         heading |-> heading])
    ELSE chunks

\* the flush of a section: chunks extended by the section's chunk, if it has a body
MdFlush(chunks, heading, lines) ==
    LET body == Strip(Flatten(lines))
    IN  IF lines /= <<>> /\ body /= <<>>
        THEN Append(chunks, [text |-> <<"#", " ">> \o heading \o <<"\n", "\n">> \o body,
                             heading |-> heading])
        ELSE chunks

\* the loop over the lines, from the k-th line, and the final flush
RECURSIVE MdLoop(_, _, _, _, _)
MdLoop(lines, k, chunks, current_heading, current_lines) ==
    IF k > Len(lines) THEN MdFlush(chunks, current_heading, current_lines)
    ELSE IF MdIsHeading(lines[k])
         THEN MdLoop(lines, k + 1, MdFlush(chunks, current_heading, current_lines),
                     MdHeadingText(lines[k]), <<>>)
         ELSE MdLoop(lines, k + 1, chunks, current_heading, Append(current_lines, lines[k]))

chunk_markdown(t, path) ==
    LET chunks == MdLoop(SplitLines(t), 1, <<>>, path, <<>>)
    IN  IF chunks /= <<>> THEN chunks ELSE <<[text |-> t, heading |-> path]>>

\* ----------------------------------------------------------- generic chunking

\* the accumulate-and-flush loop of chunk_generic from the k-th line
RECURSIVE GenericLoop(_, _, _, _, _, _)
GenericLoop(lines, k, budget, chunks, current, current_tokens) ==
    IF k > Len(lines)
    THEN IF current /= <<>> THEN Append(chunks, [text |-> Flatten(current)]) ELSE chunks
    ELSE LET line_tokens == count_tokens(lines[k])
         IN  IF current_tokens + line_tokens > budget /\ current /= <<>>
             THEN GenericLoop(lines, k + 1, budget,
                              Append(chunks, [text |-> Flatten(current)]),
                              <<lines[k]>>, line_tokens)
             ELSE GenericLoop(lines, k + 1, budget, chunks,
                              Append(current, lines[k]), current_tokens + line_tokens)

chunk_generic(t, budget) ==
    LET red == redact_secrets(t)
    IN  IF count_tokens(red) <= budget THEN <<[text |-> red]>>
        ELSE GenericLoop(SplitLines(red), 1, budget, <<>>, <<>>, 0)

\* ------------------------------------------------------ Python-aware chunking

W_class == <<"c", "l", "a", "s", "s">>
W_def == <<"d", "e", "f">>
W_async == <<"a", "s", "y", "n", "c">>
W_quotes3 == <<"\"", "\"", "\"">>

PyKeywords == {W_class \o <<" ">>, W_def \o <<" ">>, W_async \o <<" ">> \o W_def \o <<" ">>}

\* index after the maximal run (#[^\n]*\n)* from k
RECURSIVE SkipHashLines(_, _)
SkipHashLines(t, k) ==
    IF k < Len(t) /\ At(t, k) = "#" /\ SkipNot(t, "\n", k) < Len(t)
    THEN SkipHashLines(t, SkipNot(t, "\n", k) + 1)
    ELSE k

\* ^((?:#[^\n]*\n)*)(?:class |def |async def ) anchored at the line start p:
\* the end of the match, or -1
PyMatchDecl(t, p) ==
    LET a == SkipHashLines(t, p)
        ks == {kw \in PyKeywords : StartsWithAt(t, a, kw)}
    IN  IF ks = {} THEN -1 ELSE a + Len(CHOOSE kw \in ks : TRUE)

\* re.finditer: the starts of the leftmost non-overlapping matches from pos on
RECURSIVE PyMatchStarts(_, _)
PyMatchStarts(t, pos) ==
    LET hits == {p \in LineStarts(t) : p >= pos /\ p < Len(t) /\ PyMatchDecl(t, p) /= -1}
    IN  IF hits = {} THEN <<>>
        ELSE LET p == CHOOSE p \in hits : \A q \in hits : p <= q
             IN  <<p>> \o PyMatchStarts(t, PyMatchDecl(t, p))

\* the filter of chunk_python on a match start
PyIsTopLevel(t, start) ==
    LET lineStart == RFind(t, "\n", 0, start) + 1
        leading == PySlice(t, lineStart, start)
    IN  Strip(leading) = <<>> \/ StartsWithAt(leading, 0, <<"#">>)

PyBoundaries(t) == SelectSeq(PyMatchStarts(t, 0), LAMBDA b : PyIsTopLevel(t, b))

\* index after a leading """...""" + newline of s (lazy: the first closing quotes), or 0
PySkipDocstring(s) ==
    IF StartsWithAt(s, 0, W_quotes3)
    THEN LET ends == {k \in 3..Len(s) : StartsWithAt(s, k, W_quotes3 \o <<"\n">>)}
         IN  IF ends = {} THEN 0 ELSE (CHOOSE k \in ends : \A m \in ends : k <= m) + 4
    ELSE 0

\* re.match(r"(?:async\s+)?def\s+(\w+)", s): group 1, or <<>>
PyDefName(s) ==
    LET a == IF StartsWithAt(s, 0, W_async) /\ SkipSpace(s, Len(W_async)) > Len(W_async)
                /\ StartsWithAt(s, SkipSpace(s, Len(W_async)), W_def)
             THEN SkipSpace(s, Len(W_async))
             ELSE 0
    IN  KeywordName(PySlice(s, a, Len(s)), W_def)

\* _extract_py_symbol(decl_text): <<name, symbol_type>>
_extract_py_symbol(decl_text) ==
    LET s1 == LStrip(PySlice(decl_text, SkipHashLines(decl_text, 0), Len(decl_text)))
        stripped == LStrip(PySlice(s1, PySkipDocstring(s1), Len(s1)))
    IN  IF KeywordName(stripped, W_class) /= <<>>
        THEN <<KeywordName(stripped, W_class), "class">>
        ELSE IF PyDefName(stripped) /= <<>> THEN <<PyDefName(stripped), "function">>
        ELSE <<<<>>, "unknown">>

\* the declaration chunk with the extracted name kept as it is
PyDeclChunkNamed(t, bs, k) ==
    LET decl_text == RStrip(GoDeclSlice(t, bs, k))
        sym == _extract_py_symbol(decl_text)
    IN  [text |-> decl_text, language |-> "python", symbol |-> sym[1], symbol_type |-> sym[2]]

PyDeclChunk(t, bs, k) ==
    LET decl_text == RStrip(GoDeclSlice(t, bs, k))
        sym == _extract_py_symbol(decl_text)
    IN  [text |-> decl_text, language |-> "python",
         symbol |-> IF sym[1] /= <<>> THEN sym[1] ELSE W_decl_ \o DecStr(k - 1),
         symbol_type |-> sym[2]]

PyChunks(t, path, bs) ==
    IF bs = <<>>
    THEN <<[text |-> t, language |-> "python", symbol |-> path, symbol_type |-> "file"]>>
    ELSE (IF GoPreamble(t, bs) /= <<>>
          THEN <<[text |-> GoPreamble(t, bs), language |-> "python", symbol |-> path,
                  symbol_type |-> "file_overview"]>>
          ELSE <<>>)
         \o [k \in 1..Len(bs) |-> PyDeclChunk(t, bs, k)]

chunk_python(t, path) == PyChunks(t, path, PyBoundaries(t))

\* ------------------------------------------------------------ oversize guard

\* the sub-chunking loop of classify_and_chunk over the lines of an oversized text
RECURSIVE SubPartsLoop(_, _, _, _, _, _)
SubPartsLoop(lines, k, budget, sub_parts, current_lines, current_len) ==
    IF k > Len(lines)
    THEN IF current_lines /= <<>> THEN Append(sub_parts, Flatten(current_lines)) ELSE sub_parts
    ELSE IF current_len + Len(lines[k]) > budget /\ current_lines /= <<>>
         THEN SubPartsLoop(lines, k + 1, budget, Append(sub_parts, Flatten(current_lines)),
                           <<lines[k]>>, Len(lines[k]))
         ELSE SubPartsLoop(lines, k + 1, budget, sub_parts,
                           Append(current_lines, lines[k]), current_len + Len(lines[k]))

SubParts(txt, budget) == SubPartsLoop(SplitLines(txt), 1, budget, <<>>, <<>>, 0)

\* sub-parts that carry their text and position only, the other fields left behind
GuardChunkBare(chunk, budget) ==
    IF Len(chunk.text) <= budget THEN <<chunk>>
    ELSE LET sub_parts == SubParts(chunk.text, budget)
         IN  [idx \in 1..Len(sub_parts) |->
                 IF Len(sub_parts) > 1
                 THEN [text |-> sub_parts[idx],
                       sub_chunk |-> DecStr(idx) \o <<"/">> \o DecStr(Len(sub_parts))]
                 ELSE [chunk EXCEPT !.text = sub_parts[idx]]]

\* the chunks one tagged chunk becomes
GuardChunk(chunk, budget) ==
    IF Len(chunk.text) <= budget THEN <<chunk>>
    ELSE LET sub_parts == SubParts(chunk.text, budget)
         IN  [idx \in 1..Len(sub_parts) |->
                 IF Len(sub_parts) > 1
                 THEN [f \in DOMAIN chunk \cup {"sub_chunk"} |->
                          IF f = "text" THEN sub_parts[idx]
                          ELSE IF f = "sub_chunk" THEN DecStr(idx) \o <<"/">> \o DecStr(Len(sub_parts))
                          ELSE chunk[f]]
                 ELSE [chunk EXCEPT !.text = sub_parts[idx]]]

\* the oversize guard over all tagged chunks, from the k-th
RECURSIVE OversizeGuard(_, _, _)
OversizeGuard(chunks, k, budget) ==
    IF k > Len(chunks) THEN <<>>
    ELSE GuardChunk(chunks[k], budget) \o OversizeGuard(chunks, k + 1, budget)

\* {"chunk_type": ty, **c} for every raw chunk
Tag(raw_chunks, ty) ==
    [k \in 1..Len(raw_chunks) |->
        [f \in DOMAIN raw_chunks[k] \cup {"chunk_type"} |->
            IF f \in DOMAIN raw_chunks[k] THEN raw_chunks[k][f] ELSE ty]]

\* ---------------------------------------------------------------- YAML
\* yaml.safe_load and yaml.dump on the block-style subset the YAML inputs are drawn
\* from: document markers, "key: value" and "key:" entries at column 0, entries
\* nested two spaces deep, plain one-word scalars, and lines that do not parse.

YNull == [tag |-> "null"]

YErr == [tag |-> "error"]

YStr(v) == [tag |-> "str", v |-> v]

YMap(keys, vals) == [tag |-> "map", keys |-> keys, vals |-> vals]

W_marker == <<"-", "-", "-">>

\* the line without its line break
Chomp(l) == IF l /= <<>> /\ l[Len(l)] = "\n" THEN SubSeq(l, 1, Len(l) - 1) ELSE l

\* "key:" or "key: word" from column k to the end of the line
YIsEntryAt(l, k) ==
    LET a == SkipWord(l, k)
    IN  /\ a > k
        /\ a < Len(l)
        /\ At(l, a) = ":"
        /\ \/ a + 1 = Len(l)
           \/ /\ a + 2 < Len(l)
              /\ At(l, a + 1) = " "
              /\ SkipWord(l, a + 2) = Len(l)

\* <<key, value>> of an entry line whose key starts at column k
YEntryAt(l, k) ==
    LET a == SkipWord(l, k)
    IN  <<PySlice(l, k, a), IF a + 1 = Len(l) THEN YNull ELSE YStr(PySlice(l, a + 2, Len(l)))>>

YLineKind(l) ==
    IF Strip(l) = <<>> THEN "blank"
    ELSE IF StartsWithAt(l, 0, W_marker) /\ Strip(PySlice(l, 3, Len(l))) = <<>> THEN "marker"
    ELSE IF Strip(l) = <<"{", "}">> THEN "flow"
    ELSE IF YIsEntryAt(l, 0) THEN "top"
    ELSE IF StartsWithAt(l, 0, <<" ", " ">>) /\ YIsEntryAt(l, 2) THEN "nested"
    ELSE IF SkipWord(l, 0) = Len(l) THEN "scalar"
    ELSE "bad"

\* the mapping m with key k set to v: a repeated key keeps its place, the last value wins
YPut(m, k, v) ==
    IF \E n \in 1..Len(m.keys) : m.keys[n] = k
    THEN YMap(m.keys, [n \in 1..Len(m.keys) |-> IF m.keys[n] = k THEN v ELSE m.vals[n]])
    ELSE YMap(Append(m.keys, k), Append(m.vals, v))

YHasKey(m, k) == \E n \in 1..Len(m.keys) : m.keys[n] = k

\* dict.get(k, default)
YGet(m, k, default) ==
    IF YHasKey(m, k) THEN m.vals[CHOOSE n \in 1..Len(m.keys) : m.keys[n] = k] ELSE default

\* a block mapping at column 0 from the n-th content line; last is the key of the
\* latest column-0 entry
RECURSIVE YParseTop(_, _, _, _)
YParseTop(ls, n, m, last) ==
    IF n > Len(ls) THEN m
    ELSE IF YLineKind(ls[n]) = "top"
         THEN LET e == YEntryAt(ls[n], 0)
              IN  YParseTop(ls, n + 1, YPut(m, e[1], e[2]), e[1])
         ELSE LET e == YEntryAt(ls[n], 2)
                  cur == YGet(m, last, YNull)
              IN  IF last = <<>> \/ cur.tag = "str" THEN YErr
                  ELSE YParseTop(ls, n + 1,
                                 YPut(m, last, YPut(IF cur.tag = "map" THEN cur
                                                    ELSE YMap(<<>>, <<>>), e[1], e[2])),
                                 last)

\* a block mapping whose entries all sit at column 2
RECURSIVE YParseIndented(_, _, _)
YParseIndented(ls, n, m) ==
    IF n > Len(ls) THEN m
    ELSE LET e == YEntryAt(ls[n], 2)
         IN  YParseIndented(ls, n + 1, YPut(m, e[1], e[2]))

ChompAll(ls) == [n \in DOMAIN ls |-> Chomp(ls[n])]

\* the lines of t without their line breaks
YLines(t) == ChompAll(SplitLines(t))

YKinds(ls) == [n \in DOMAIN ls |-> YLineKind(ls[n])]

\* the documents of a stream: one per marker line, and one more when content
\* precedes the first marker
YDocCount(kinds) ==
    LET markers == {n \in DOMAIN kinds : kinds[n] = "marker"}
        implicit == \E n \in DOMAIN kinds :
                        /\ kinds[n] \notin {"blank", "marker"}
                        /\ \A m \in markers : n < m
    IN  Cardinality(markers) + (IF implicit THEN 1 ELSE 0)

\* the content lines of a stream
YBody(ls) == SelectSeq(ls, LAMBDA l : YLineKind(l) \notin {"blank", "marker"})

\* the value of a single document given its content lines and their kinds; "{}"
\* alone is the empty mapping, and after a plain scalar it is more of the scalar
YLoadBody(body, bk) ==
    IF body = <<>> THEN YNull
    ELSE IF bk[1] = "flow" THEN (IF Len(body) = 1 THEN YMap(<<>>, <<>>) ELSE YErr)
    ELSE IF \A n \in DOMAIN bk : bk[n] \in {"scalar", "flow"} THEN YStr(Join(body, <<" ">>))
    ELSE IF \E n \in DOMAIN bk : bk[n] = "flow" THEN YErr
    ELSE IF \E n \in DOMAIN bk : bk[n] = "scalar" THEN YErr
    ELSE IF bk[1] = "nested"
         THEN IF \A n \in DOMAIN bk : bk[n] = "nested"
              THEN YParseIndented(body, 1, YMap(<<>>, <<>>))
              ELSE YErr
         ELSE YParseTop(body, 1, YMap(<<>>, <<>>), <<>>)

YLoadDoc(body) == YLoadBody(body, YKinds(body))

\* a line that does not scan, or a second document where one is expected, raises
YLoadLines(all, kinds) ==
    IF (\E n \in DOMAIN kinds : kinds[n] = "bad") \/ YDocCount(kinds) > 1 THEN YErr
    ELSE YLoadDoc(YBody(all))

YLoadAll(all) == YLoadLines(all, YKinds(all))

\* yaml.safe_load(t): the value, or YErr when it raises yaml.YAMLError
SafeLoad(t) == YLoadAll(YLines(t))

LetterOrder ==
    <<"a", "b", "c", "d", "e", "f", "g", "h", "i", "j", "k", "l", "m",
      "n", "o", "p", "q", "r", "s", "t", "u", "v", "w", "x", "y", "z">>

CharRank(c) ==
    IF \E n \in 1..Len(LetterOrder) : LetterOrder[n] = c
    THEN Len(LetterOrder) + (CHOOSE n \in 1..Len(LetterOrder) : LetterOrder[n] = c)
    ELSE IF \E n \in 1..Len(LetterOrder) : LetterOrder[n] = LowerChar(c)
    THEN CHOOSE n \in 1..Len(LetterOrder) : LetterOrder[n] = LowerChar(c)
    ELSE 0

\* a < b for words, as str compares them
RECURSIVE WordLess(_, _)
WordLess(a, b) ==
    IF b = <<>> THEN FALSE
    ELSE IF a = <<>> THEN TRUE
    ELSE IF a[1] = b[1] THEN WordLess(Tail(a), Tail(b))
    ELSE CharRank(a[1]) < CharRank(b[1])

\* the entries of a nested mapping in sorted key order, two spaces deep
RECURSIVE YDumpNested(_, _)
YDumpNested(m, done) ==
    LET left == {n \in 1..Len(m.keys) : n \notin done}
    IN  IF left = {} THEN <<>>
        ELSE LET n == CHOOSE n \in left : \A o \in left : o = n \/ WordLess(m.keys[n], m.keys[o])
             IN  <<" ", " ">> \o m.keys[n] \o <<":", " ">>
                 \o (IF m.vals[n].tag = "str" THEN m.vals[n].v ELSE <<"n", "u", "l", "l">>)
                 \o <<"\n">> \o YDumpNested(m, done \cup {n})

\* yaml.dump({key: value}, default_flow_style=False)
YDump(key, value) ==
    CASE value.tag = "str" -> key \o <<":", " ">> \o value.v \o <<"\n">>
      [] value.tag = "null" -> key \o <<":", " ", "n", "u", "l", "l", "\n">>
      [] value.tag = "map" -> key \o <<":", "\n">> \o YDumpNested(value, {})

W_kind == <<"k", "i", "n", "d">>
W_Secret == <<"S", "e", "c", "r", "e", "t">>
W_metadata == <<"m", "e", "t", "a", "d", "a", "t", "a">>
W_name == <<"n", "a", "m", "e">>
W_namespace == W_name \o <<"s", "p", "a", "c", "e">>
W_root == <<"r", "o", "o", "t">>

\* isinstance(obj, dict) and obj.get("kind") == "Secret"
IsSecretObj(obj) == obj.tag = "map" /\ YGet(obj, W_kind, YNull) = YStr(W_Secret)

\* is_k8s_secret(doc_text): False when safe_load raises yaml.YAMLError
is_k8s_secret(doc_text) == IsSecretObj(SafeLoad(doc_text))

\* ------------------------------------------------- Kubernetes YAML chunking

\* \n---\s*\n anchored at p: the end of the match (after the last line break of the
\* white space that follows the marker), or -1
MatchDocSep(t, p) ==
    IF StartsWithAt(t, p, <<"\n">> \o W_marker)
    THEN LET a == p + 4
             b == SkipSpace(t, a)
             nls == {k \in a..(b - 1) : At(t, k) = "\n"}
         IN  IF nls = {} THEN -1 ELSE (CHOOSE k \in nls : \A m \in nls : m <= k) + 1
    ELSE -1

\* re.split(r"\n---\s*\n", t): the pieces, scanning from pos with the piece begun at from
RECURSIVE SplitDocs(_, _, _)
SplitDocs(t, from, pos) ==
    IF pos >= Len(t) THEN <<PySlice(t, from, Len(t))>>
    ELSE IF MatchDocSep(t, pos) /= -1
         THEN <<PySlice(t, from, pos)>> \o SplitDocs(t, MatchDocSep(t, pos), MatchDocSep(t, pos))
         ELSE SplitDocs(t, from, pos + 1)

\* the value a chunk field gets from dict.get(key, ""): the string, or the value as is
YField(v) == IF v.tag = "str" THEN v.v ELSE v

\* the outcome of a call: the chunks returned, or an exception raised
Returned(chunks) == [raised |-> FALSE, chunks |-> chunks]

Raised == [raised |-> TRUE, chunks |-> <<>>]

\* whether meta.get(...) raises AttributeError: meta is neither a mapping nor falsy
K8sMetaRaises(meta) == meta.tag = "str" /\ meta.v /= <<>>

\* the metadata of one document and its chunk, or the exception of meta.get
K8sChunkOf(obj, meta, redacted) ==
    IF obj.tag /= "map"
    THEN Returned(<<[text |-> redacted, kind |-> <<>>, name |-> <<>>, namespace |-> <<>>]>>)
    ELSE IF K8sMetaRaises(meta) THEN Raised
    ELSE Returned(<<[text |-> redacted,
                     kind |-> YField(YGet(obj, W_kind, YStr(<<>>))),
                     name |-> YField(YGet(meta, W_name, YStr(<<>>))),
                     namespace |-> YField(YGet(meta, W_namespace, YStr(<<>>)))]>>)

\* meta = obj.get("metadata", {}) or {}
K8sMeta(obj) ==
    IF obj.tag /= "map" THEN YMap(<<>>, <<>>)
    ELSE IF YGet(obj, W_metadata, YNull).tag = "null" THEN YMap(<<>>, <<>>)
    ELSE YGet(obj, W_metadata, YNull)

K8sLoaded(obj, redacted) == K8sChunkOf(obj, K8sMeta(obj), redacted)

\* the body of the loop of chunk_k8s_yaml for one document that is kept: the chunk
\* appended, or the exception
K8sDocChunk(doc) == K8sLoaded(SafeLoad(doc), redact_secrets(doc))

\* the loop of chunk_k8s_yaml from the n-th piece
RECURSIVE K8sLoop(_, _, _)
K8sAppend(docs, n, chunks, r) ==
    IF r.raised THEN Raised ELSE K8sLoop(docs, n + 1, chunks \o r.chunks)

K8sIter(docs, n, chunks, doc) ==
    IF doc = <<>> THEN K8sLoop(docs, n + 1, chunks)
    ELSE IF is_k8s_secret(doc) THEN K8sLoop(docs, n + 1, chunks)
    ELSE K8sAppend(docs, n, chunks, K8sDocChunk(doc))

K8sLoop(docs, n, chunks) ==
    IF n > Len(docs) THEN Returned(chunks) ELSE K8sIter(docs, n, chunks, Strip(docs[n]))

chunk_k8s_yaml(t) == K8sLoop(SplitDocs(t, 0, 0), 1, <<>>)

\* ------------------------------------------------------ Helm values chunking

\* a section kept only when it counts more than two tokens
HelmSectionLong(key, section_text) ==
    IF count_tokens(section_text) > 2
    THEN <<[text |-> section_text, section |-> key]>>
    ELSE <<>>

\* the chunk of one top-level key, skipped when its text counts no token
HelmSection(key, section_text) ==
    IF count_tokens(section_text) > 0
    THEN <<[text |-> section_text, section |-> key]>>
    ELSE <<>>

\* the loop of chunk_helm_values over obj.items(), from the n-th key
RECURSIVE HelmLoop(_, _)
HelmLoop(obj, n) ==
    IF n > Len(obj.keys) THEN <<>>
    ELSE HelmSection(obj.keys[n], redact_secrets(YDump(obj.keys[n], obj.vals[n])))
         \o HelmLoop(obj, n + 1)

HelmResult(chunks, root) == IF chunks /= <<>> THEN chunks ELSE root

HelmLoaded(obj, root) ==
    IF obj.tag /= "map" THEN root ELSE HelmResult(HelmLoop(obj, 1), root)

chunk_helm_values(t) ==
    HelmLoaded(SafeLoad(t), <<[text |-> redact_secrets(t), section |-> W_root]>>)

\* ------------------------------------------------------------------ dispatch

\* Path(p).name
PathName(path) == PySlice(path, RFind(path, "/", 0, Len(path)) + 1, Len(path))

\* Path(p).suffix
PathSuffix(path) ==
    LET name == PathName(path)
        dot == RFind(name, ".", 0, Len(name))
    IN  IF 0 < dot /\ dot < Len(name) - 1 THEN PySlice(name, dot, Len(name)) ELSE <<>>

\* w in t
Contains(t, w) == \E k \in 0..Len(t) : StartsWithAt(t, k, w)

W_md == <<".", "m", "d">>
W_mmd == <<".", "m", "m", "d">>
W_go == <<".", "g", "o">>
W_py == <<".", "p", "y">>
W_yaml == <<".", "y", "a", "m", "l">>
W_yml == <<".", "y", "m", "l">>
W_values == <<"v", "a", "l", "u", "e", "s">>
W_chart_yaml == <<"c", "h", "a", "r", "t">> \o W_yaml

\* a dispatch on the extension and the name as they are written, not lower-cased
ChunkTypeCased(path) ==
    LET ext == PathSuffix(path)
        name == PathName(path)
    IN  IF ext \in {W_md, W_mmd} THEN "markdown"
        ELSE IF ext = W_go THEN "go-code"
        ELSE IF ext = W_py THEN "python-code"
        ELSE IF ext \in {W_yaml, W_yml}
             THEN IF Contains(name, W_values) \/ name = W_chart_yaml THEN "helm-values"
                  ELSE "k8s-yaml"
        ELSE "generic"

\* the branch classify_and_chunk takes, named by its chunk_type
ChunkType(path) ==
    LET ext == Lower(PathSuffix(path))
        name == Lower(PathName(path))
    IN  IF ext \in {W_md, W_mmd} THEN "markdown"
        ELSE IF ext = W_go THEN "go-code"
        ELSE IF ext = W_py THEN "python-code"
        ELSE IF ext \in {W_yaml, W_yml}
             THEN IF Contains(name, W_values) \/ name = W_chart_yaml THEN "helm-values"
                  ELSE "k8s-yaml"
        ELSE "generic"


\* ------------------------------------------------------------ configuration

\* the defaults of EMBED_MAX_CHARS and CHUNK_MAX_TOKENS
DefaultEmbedMaxChars == 5000

DefaultChunkMaxTokens == 512

\* ------------------------------------------------ specification: redaction

MaxRedactFrags == 4

RedactFrags ==
    { W_token, W_bearer, <<":">>, <<"=">>, <<" ">>, <<"a">>, <<"\n">>,
      W_BEGIN \o <<" ", "K">> \o W_dashes, W_END \o <<" ", "K">> \o W_dashes }

\* the variables a specification does not use
ScanIdle ==
    /\ i = 0
    /\ line_start = 0
    /\ brace_depth = 0
    /\ in_string = FALSE
    /\ in_raw_string = FALSE
    /\ in_line_comment = FALSE
    /\ in_block_comment = FALSE

ChunksIdle ==
    /\ boundaries = <<>>
    /\ preamble = <<>>
    /\ tagged = <<>>
    /\ final = <<>>

RedactIdle ==
    /\ once = <<>>
    /\ twice = <<>>

IndexIdle ==
    /\ all_texts = <<>>
    /\ all_metadata = <<>>

\* no entry of the cache store (dict.get returns None)
NoEntry == [ts |-> -1, val |-> "None"]

\* the locals of a thread that is not in a call
IdleThread ==
    [pc |-> "idle", op |-> "none", key |-> "none", value |-> "None", entry |-> NoEntry,
     t_now |-> -1, ret |-> "None"]

CacheIdle ==
    /\ _store = <<>>
    /\ _lock = "none"
    /\ now = 0
    /\ threads = <<>>
    /\ last_set = <<>>

\* the empty string as a token: no auth-token in the config
EmptyToken == [segments |-> 0, kind |-> "none", exp |-> 0]

TokenIdle ==
    /\ token = EmptyToken
    /\ refreshed = FALSE

\* get_last_sha returns None: no commit was indexed
NoSha == <<>>

RunIdle ==
    /\ last_sha = NoSha
    /\ old_sha = NoSha
    /\ points = {}
    /\ head_tree = <<>>
    /\ eligible_files = {}
    /\ todo = <<>>
    /\ run_metadata = <<>>
    /\ batch_i = 0

\* no POST was made
NoResponse == [status |-> "none", body |-> "none"]

EmbedIdle ==
    /\ attempt = 0
    /\ posts = <<>>
    /\ resp = NoResponse
    /\ result = "none"

LaterIdle ==
    /\ TokenIdle
    /\ RunIdle
    /\ EmbedIdle

OtherIdle ==
    /\ CacheIdle
    /\ LaterIdle

ChunkerIdle ==
    /\ text = <<>>
    /\ filepath = <<>>
    /\ EMBED_MAX_CHARS = 0
    /\ CHUNK_MAX_TOKENS = 0
    /\ ScanIdle
    /\ ChunksIdle
    /\ RedactIdle
    /\ IndexIdle

ConfigDefault ==
    /\ EMBED_MAX_CHARS = DefaultEmbedMaxChars
    /\ CHUNK_MAX_TOKENS = DefaultChunkMaxTokens

RedactInit ==
    /\ text \in {Flatten(fs) : fs \in SeqsUpTo(RedactFrags, MaxRedactFrags)}
    /\ filepath = <<>>
    /\ pc = "start"
    /\ ConfigDefault
    /\ ScanIdle
    /\ ChunksIdle
    /\ RedactIdle
    /\ IndexIdle
    /\ OtherIdle

RedactOnce ==
    /\ pc = "start"
    /\ once' = redact_secrets(text)
    /\ pc' = "once"
    /\ UNCHANGED <<text, filepath, configVars, scanVars, boundaries, preamble, tagged, final,
                   twice, indexVars, otherVars>>

RedactTwice ==
    /\ pc = "once"
    /\ twice' = redact_secrets(once)
    /\ pc' = "twice"
    /\ UNCHANGED <<text, filepath, configVars, scanVars, boundaries, preamble, tagged, final,
                   once, indexVars, otherVars>>

RedactNext == RedactOnce \/ RedactTwice

SpecRedact == RedactInit /\ [][RedactNext]_vars

\* ------------------------------------- specification: classify_and_chunk

\* the files handed to classify_and_chunk are at most MaxLines lines long
MaxLines == 3

\* a character budget and a token budget small enough for the files to exceed
SmallCharBudget == 8

SmallTokenBudget == 2

P_readme == <<"R", "E", "A", "D", "M", "E", ".", "m", "d">>
P_main_go == <<"c", "m", "d", "/", "m", "a", "i", "n", ".", "g", "o">>
P_app_py == <<"a", "p", "p", ".", "p", "y">>
P_values == <<"v", "a", "l", "u", "e", "s", ".", "y", "a", "m", "l">>
P_deploy == <<"d", "e", "p", "l", "o", "y", ".", "y", "m", "l">>
P_run_sh == <<"r", "u", "n", ".", "s", "h">>

Paths == {P_readme, P_main_go, P_app_py, P_values, P_deploy, P_run_sh}

\* lines of the Markdown files
MdLines ==
    { <<"#", " ", "A">>,
      <<"#", "#", " ", "B">>,
      <<"#">>,
      <<"x">>,
      <<" ", "y">>,
      <<>> }

\* lines of the Go files
GoLines ==
    { <<"p", "a", "c", "k", "a", "g", "e", " ", "p">>,
      <<"f", "u", "n", "c", " ", "A", "(", ")", "{">>,
      <<"}">>,
      <<"f", "u", "n", "c", " ", "b", "(", ")", "{", "}">>,
      <<"u", ":", "=", "\"", "/", "/", "\"">>,
      <<"/", "/", "d">>,
      <<>> }

\* lines of the Go files scanned step by step: raw strings and block comments too
GoScanLines ==
    GoLines \cup { <<"r", ":", "=", BackQuote, "\"">>,
                   <<BackQuote>>,
                   <<"/", "*">>,
                   <<"*", "/">> }

\* lines of the Python files
PyLines ==
    { <<"i", "m", "p", "o", "r", "t", " ", "o", "s">>,
      <<"d", "e", "f", " ", "f", "(", ")", ":">>,
      <<"c", "l", "a", "s", "s", " ", "C", ":">>,
      <<" ", "d", "e", "f", " ", "g", "(", ")", ":", " ", "p", "a", "s", "s">>,
      <<"#", " ", "c">>,
      <<>>,
      <<"a", "s", "y", "n", "c", " ", "d", "e", "f", " ", "h", "(", ")", ":", " ", "p", "a", "s", "s">> }

\* lines of the Kubernetes YAML files
YamlLines ==
    { <<"k", "i", "n", "d", ":", " ", "S", "e", "c", "r", "e", "t">>,
      <<"k", "i", "n", "d", ":", " ", "P", "o", "d">>,
      <<"m", "e", "t", "a", "d", "a", "t", "a", ":">>,
      <<"m", "e", "t", "a", "d", "a", "t", "a", ":", " ", "x">>,
      <<" ", " ", "n", "a", "m", "e", ":", " ", "w", "e", "b">>,
      <<"-", "-", "-">>,
      <<"{">>,
      <<"p", "a", "s", "s", "w", "o", "r", "d", ":", " ", "p">> }

\* lines of the Helm values files
HelmLines ==
    { <<"k", "i", "n", "d", ":", " ", "S", "e", "c", "r", "e", "t">>,
      <<"i", "m", "a", "g", "e", ":", " ", "w", "e", "b">>,
      <<"m", "e", "t", "a", "d", "a", "t", "a", ":">>,
      <<" ", " ", "n", "a", "m", "e", ":", " ", "w", "e", "b">>,
      <<"-", "-", "-">>,
      <<"{">> }

\* lines of the other files
ShLines ==
    { <<"a">>,
      <<"a", "b", "c", "d", "e", "f", "g", "h", "i">>,
      <<"t", "o", "k", "e", "n", "=", "a", ":", "b">>,
      <<>> }

\* the texts of at most n lines drawn from a set of lines
TextsOf(lines, n) == {Join(ls, <<"\n">>) : ls \in SeqsUpTo(lines, n)}

\* the lines a file of a given path is written in
LinesFor(path) ==
    CASE ChunkType(path) = "markdown" -> MdLines
      [] ChunkType(path) = "go-code" -> GoLines
      [] ChunkType(path) = "python-code" -> PyLines
      [] ChunkType(path) = "k8s-yaml" -> YamlLines
      [] ChunkType(path) = "helm-values" -> HelmLines
      [] ChunkType(path) = "generic" -> ShLines

Init ==
    /\ filepath \in Paths
    /\ text \in TextsOf(LinesFor(filepath), MaxLines)
    /\ EMBED_MAX_CHARS \in {SmallCharBudget, DefaultEmbedMaxChars}
    /\ CHUNK_MAX_TOKENS \in
           IF ChunkType(filepath) = "generic"
           THEN {SmallTokenBudget, DefaultChunkMaxTokens}
           ELSE {DefaultChunkMaxTokens}
    /\ pc = "start"
    /\ ScanIdle
    /\ ChunksIdle
    /\ RedactIdle
    /\ IndexIdle
    /\ OtherIdle

\* the branches of classify_and_chunk: each calls its chunker and tags the chunks
ChunkMarkdown ==
    /\ pc = "start"
    /\ ChunkType(filepath) = "markdown"
    /\ tagged' = Tag(chunk_markdown(text, filepath), "markdown")
    /\ pc' = "chunked"
    /\ UNCHANGED <<text, filepath, configVars, scanVars, boundaries, preamble, final,
                   redactVars, indexVars, otherVars>>

ChunkGo ==
    /\ pc = "start"
    /\ ChunkType(filepath) = "go-code"
    /\ boundaries' = GoBoundaries(text)
    /\ preamble' = IF boundaries' /= <<>> THEN GoPreamble(text, boundaries') ELSE <<>>
    /\ tagged' = Tag(GoChunks(text, filepath, boundaries'), "go-code")
    /\ pc' = "chunked"
    /\ UNCHANGED <<text, filepath, configVars, scanVars, final, redactVars, indexVars, otherVars>>

ChunkPython ==
    /\ pc = "start"
    /\ ChunkType(filepath) = "python-code"
    /\ boundaries' = PyBoundaries(text)
    /\ preamble' = IF boundaries' /= <<>> THEN GoPreamble(text, boundaries') ELSE <<>>
    /\ tagged' = Tag(PyChunks(text, filepath, boundaries'), "python-code")
    /\ pc' = "chunked"
    /\ UNCHANGED <<text, filepath, configVars, scanVars, final, redactVars, indexVars, otherVars>>

ChunkHelmValues ==
    /\ pc = "start"
    /\ ChunkType(filepath) = "helm-values"
    /\ tagged' = Tag(chunk_helm_values(text), "helm-values")
    /\ pc' = "chunked"
    /\ UNCHANGED <<text, filepath, configVars, scanVars, boundaries, preamble, final,
                   redactVars, indexVars, otherVars>>

\* chunk_k8s_yaml returns its chunks, or AttributeError leaves classify_and_chunk
ChunkK8sYaml ==
    /\ pc = "start"
    /\ ChunkType(filepath) = "k8s-yaml"
    /\ \E raw \in {chunk_k8s_yaml(text)} :
           IF raw.raised
           THEN /\ pc' = "raised"
                /\ tagged' = tagged
           ELSE /\ pc' = "chunked"
                /\ tagged' = Tag(raw.chunks, "k8s-yaml")
    /\ UNCHANGED <<text, filepath, configVars, scanVars, boundaries, preamble, final,
                   redactVars, indexVars, otherVars>>

ChunkGeneric ==
    /\ pc = "start"
    /\ ChunkType(filepath) = "generic"
    /\ tagged' = Tag(chunk_generic(text, CHUNK_MAX_TOKENS), "generic")
    /\ pc' = "chunked"
    /\ UNCHANGED <<text, filepath, configVars, scanVars, boundaries, preamble, final,
                   redactVars, indexVars, otherVars>>

\* the loop over tagged that enforces EMBED_MAX_CHARS, and the return
EnforceMaxChars ==
    /\ pc = "chunked"
    /\ final' = OversizeGuard(tagged, 1, EMBED_MAX_CHARS)
    /\ pc' = "done"
    /\ UNCHANGED <<text, filepath, configVars, scanVars, boundaries, preamble, tagged,
                   redactVars, indexVars, otherVars>>

Next ==
    \/ ChunkMarkdown
    \/ ChunkGo
    \/ ChunkPython
    \/ ChunkHelmValues
    \/ ChunkK8sYaml
    \/ ChunkGeneric
    \/ EnforceMaxChars

Spec == Init /\ [][Next]_vars

\* ------------------------------------------ specification: the scan of chunk_go

\* the Go files scanned character by character are at most MaxGoLines lines long
MaxGoLines == 4

\* the scanner's locals as GoScanStep takes them
ScanState ==
    [i |-> i, line_start |-> line_start, brace_depth |-> brace_depth,
     in_string |-> in_string, in_raw_string |-> in_raw_string,
     in_line_comment |-> in_line_comment, in_block_comment |-> in_block_comment,
     boundaries |-> boundaries]

GoInit ==
    /\ filepath = P_main_go
    /\ text \in TextsOf(GoScanLines, MaxGoLines)
    /\ ConfigDefault
    /\ pc = "scan"
    /\ ScanIdle
    /\ ChunksIdle
    /\ RedactIdle
    /\ IndexIdle
    /\ OtherIdle

\* one iteration of the scan loop of chunk_go
GoScan ==
    /\ pc = "scan"
    /\ i < Len(text)
    /\ LET s == GoScanStep(text, ScanState)
       IN  /\ i' = s.i
           /\ line_start' = s.line_start
           /\ brace_depth' = s.brace_depth
           /\ in_string' = s.in_string
           /\ in_raw_string' = s.in_raw_string
           /\ in_line_comment' = s.in_line_comment
           /\ in_block_comment' = s.in_block_comment
           /\ boundaries' = s.boundaries
    /\ UNCHANGED <<text, filepath, pc, configVars, preamble, tagged, final, redactVars, indexVars, otherVars>>

\* the rest of chunk_go after the loop, and the tagging of its chunks
GoEmit ==
    /\ pc = "scan"
    /\ i >= Len(text)
    /\ preamble' = IF boundaries /= <<>> THEN GoPreamble(text, boundaries) ELSE <<>>
    /\ tagged' = Tag(GoChunks(text, filepath, boundaries), "go-code")
    /\ pc' = "chunked"
    /\ UNCHANGED <<text, filepath, configVars, scanVars, boundaries, final, redactVars, indexVars, otherVars>>

GoNext == GoScan \/ GoEmit \/ EnforceMaxChars

SpecGo == GoInit /\ [][GoNext]_vars

\* --------------------------- specification: the scan of chunk_go over braces

\* the Go files scanned for their braces are at most MaxBraceLines lines long
MaxBraceLines == 3

\* lines with braces in code, in comments and in strings
BraceLines ==
    { <<"{">>,
      <<"}">>,
      <<"/", "/", "{">>,
      <<"/", "*", "}">>,
      <<"*", "/">>,
      <<"\"", "{", "\"">>,
      <<BackQuote, "}", BackQuote>> }

GoBraceInit ==
    /\ filepath = P_main_go
    /\ text \in TextsOf(BraceLines, MaxBraceLines)
    /\ ConfigDefault
    /\ pc = "scan"
    /\ ScanIdle
    /\ ChunksIdle
    /\ RedactIdle
    /\ IndexIdle
    /\ OtherIdle

SpecGoBraces == GoBraceInit /\ [][GoNext]_vars

\* --------------------------------- specification: index_repo, one file

\* the repository and the commit index_repo works on
RepoSlug == <<"o", "/", "r">>

HeadSha == <<"h", "1">>

W_repo_ == <<"r", "e", "p", "o", ":", " ">>
W_file_ == <<" ", "|", " ", "f", "i", "l", "e", ":", " ">>
W_kind_ == <<" ", "|", " ", "k", "i", "n", "d", ":", " ">>
W_name_ == <<" ", "|", " ", "n", "a", "m", "e", ":", " ">>
W_namespace_ == <<" ", "|", " ", "n", "a", "m", "e", "s", "p", "a", "c", "e", ":", " ">>
W_main == <<"m", "a", "i", "n">>

\* the chunk fields whose values are keywords of the code, never empty
KeywordFields == {"chunk_type", "language", "symbol_type"}

\* chunk.get(f): the value of a field, empty when the chunk has none
ChunkGet(chunk, f) == IF f \in DOMAIN chunk THEN chunk[f] ELSE <<>>

\* one " | <label>: <value>" part of the prefix, present when the value is not empty
PrefixPart(label, value) == IF value /= <<>> THEN label \o value ELSE <<>>

\* prefix = f"repo: {repo_slug} | file: {filepath}" and the kind/name/namespace parts
SearchPrefix(chunk, path) ==
    W_repo_ \o RepoSlug \o W_file_ \o path
    \o PrefixPart(W_kind_, ChunkGet(chunk, "kind"))
    \o PrefixPart(W_name_, ChunkGet(chunk, "name"))
    \o PrefixPart(W_namespace_, ChunkGet(chunk, "namespace"))

\* search_text = f"{prefix}\n\n{chunk_text}"
SearchText(chunk, path) == SearchPrefix(chunk, path) \o <<"\n", "\n">> \o chunk.text

\* the fields of {k: v for k, v in chunk.items() if v}, the text popped
TruthyFields(chunk) ==
    {f \in DOMAIN chunk \ {"text"} : f \in KeywordFields \/ chunk[f] /= <<>>}

\* the metadata of the chunk at index idx (0-based)
ChunkMetadata(chunk, path, idx) ==
    [f \in {"repo", "branch", "filepath", "commit_sha", "chunk_index"}
           \cup TruthyFields(chunk) |->
        IF f \in TruthyFields(chunk) THEN chunk[f]
        ELSE CASE f = "repo" -> RepoSlug
               [] f = "branch" -> W_main
               [] f = "filepath" -> path
               [] f = "commit_sha" -> HeadSha
               [] f = "chunk_index" -> idx]

\* a chunk that is kept without looking at its text
KeepAnyChunk(chunk) == TRUE

\* if not chunk_text.strip(): continue
KeepChunk(chunk) == Strip(chunk.text) /= <<>>

\* the loop of index_repo over the chunks of a file, from the k-th (1-based):
\* the search texts and metadata appended to all_texts and all_metadata
RECURSIVE CollectChunks(_, _, _)
CollectChunks(chunks, path, k) ==
    IF k > Len(chunks) THEN [texts |-> <<>>, metadata |-> <<>>]
    ELSE LET rest == CollectChunks(chunks, path, k + 1)
         IN  IF KeepChunk(chunks[k])
             THEN [texts |-> <<SearchText(chunks[k], path)>> \o rest.texts,
                   metadata |-> <<ChunkMetadata(chunks[k], path, k - 1)>> \o rest.metadata]
             ELSE rest

\* the files index_repo reads are at most MaxIndexLines lines long
MaxIndexLines == 2

P_a_mmd == <<"a", ".", "M", "M", "D">>
P_values_md == <<"v", "a", "l", "u", "e", "s", ".", "m", "d">>
P_my_values == <<"m", "y", "-", "v", "a", "l", "u", "e", "s", ".", "Y", "M", "L">>
P_chart == <<"C", "h", "a", "r", "t", ".", "y", "a", "m", "l">>
P_chart_yml == <<"c", "h", "a", "r", "t", ".", "y", "m", "l">>
P_values_dir == <<"v", "a", "l", "u", "e", "s", "/", "d", "e", "p", "l", "o", "y", ".", "y", "a", "m", "l">>
P_dot_yaml == <<".", "y", "a", "m", "l">>
P_makefile == <<"M", "a", "k", "e", "f", "i", "l", "e">>
P_go_md == <<"x", ".", "g", "o", ".", "m", "d">>

IndexPaths ==
    Paths \cup {P_a_mmd, P_values_md, P_my_values, P_chart, P_chart_yml, P_values_dir,
                P_dot_yaml, P_makefile, P_go_md}

\* the lines of the files index_repo reads: each kind of file has a secret-like line
IndexLinesFor(path) ==
    CASE ChunkType(path) = "markdown" ->
            { <<"#", " ", "A">>,
              <<"t", "o", "k", "e", "n", "=", "a">>,
              <<"x">>,
              <<>> }
      [] ChunkType(path) = "go-code" ->
            { <<"p", "a", "c", "k", "a", "g", "e", " ", "p">>,
              <<"f", "u", "n", "c", " ", "A", "(", ")", "{", "}">>,
              <<"t", "o", "k", "e", "n", "=", "a">>,
              <<>>,
              <<" ", "/", "/", "c">>,
              <<"v", "a", "r", " ", "(">> }
      [] ChunkType(path) = "python-code" ->
            { <<"i", "m", "p", "o", "r", "t", " ", "o", "s">>,
              <<"d", "e", "f", " ", "f", "(", ")", ":">>,
              <<"t", "o", "k", "e", "n", "=", "a">>,
              <<>>,
              <<"c", "l", "a", "s", "s", " ", ":">>,
              <<"#", " ", "c">> }
      [] ChunkType(path) = "k8s-yaml" ->
            { <<"k", "i", "n", "d", ":", " ", "P", "o", "d">>,
              <<"t", "o", "k", "e", "n", ":", " ", "a">>,
              <<"-", "-", "-">>,
              <<>> }
      [] ChunkType(path) = "helm-values" ->
            { <<"i", "m", "a", "g", "e", ":", " ", "w", "e", "b">>,
              <<"t", "o", "k", "e", "n", ":", " ", "a">>,
              <<"m", "e", "t", "a", "d", "a", "t", "a", ":">>,
              <<" ", " ", "n", "a", "m", "e", ":", " ", "w", "e", "b">>,
              <<"{">>,
              <<"{", "}">>,
              <<"x">>,
              <<>> }
      [] ChunkType(path) = "generic" ->
            { <<"a">>,
              <<"t", "o", "k", "e", "n", "=", "a">>,
              <<"a", "b", "c", "d", "e", "f", "g", "h", "i">>,
              <<>> }

IndexInit ==
    /\ filepath \in IndexPaths
    /\ text \in TextsOf(IndexLinesFor(filepath), MaxIndexLines)
    /\ EMBED_MAX_CHARS \in {SmallCharBudget, DefaultEmbedMaxChars}
    /\ CHUNK_MAX_TOKENS = DefaultChunkMaxTokens
    /\ pc = "read"
    /\ ScanIdle
    /\ ChunksIdle
    /\ RedactIdle
    /\ IndexIdle
    /\ OtherIdle

\* the file is read; a file that is empty after trimming is skipped
IndexRead ==
    /\ pc = "read"
    /\ pc' = IF Strip(text) = <<>> THEN "skipped" ELSE "start"
    /\ UNCHANGED <<text, filepath, configVars, scanVars, boundaries, preamble, tagged, final,
                   redactVars, indexVars, otherVars>>

\* the chunks classify_and_chunk returned are collected for embedding
IndexCollect ==
    /\ pc = "done"
    /\ \E got \in {CollectChunks(final, filepath, 1)} :
           /\ all_texts' = all_texts \o got.texts
           /\ all_metadata' = all_metadata \o got.metadata
    /\ pc' = "collected"
    /\ UNCHANGED <<text, filepath, configVars, scanVars, boundaries, preamble, tagged, final,
                   redactVars, otherVars>>

IndexNext ==
    \/ IndexRead
    \/ ChunkMarkdown
    \/ ChunkGo
    \/ ChunkPython
    \/ ChunkHelmValues
    \/ ChunkK8sYaml
    \/ ChunkGeneric
    \/ EnforceMaxChars
    \/ IndexCollect

SpecIndex == IndexInit /\ [][IndexNext]_vars

\* --------------------------------- specification: Markdown with code fences

MaxMdLines == 3

\* heading lines, body lines and the fence of a code block
FenceLines ==
    { <<BackQuote, BackQuote, BackQuote>>,
      <<"#", " ", "A">>,
      <<"x">>,
      <<"#", "#", " ", "B">> }

MdInit ==
    /\ filepath = P_readme
    /\ text \in TextsOf(FenceLines, MaxMdLines)
    /\ EMBED_MAX_CHARS \in {SmallCharBudget, DefaultEmbedMaxChars}
    /\ CHUNK_MAX_TOKENS = DefaultChunkMaxTokens
    /\ pc = "start"
    /\ ScanIdle
    /\ ChunksIdle
    /\ RedactIdle
    /\ IndexIdle
    /\ OtherIdle

MdNext == ChunkMarkdown \/ EnforceMaxChars

SpecMd == MdInit /\ [][MdNext]_vars

\* --------------------------------- specification: _TTLCache under threads

\* the ttl the cache is built with, in clock ticks
default_ttl == 1

\* the clock stops here
MaxClock == 3

Threads == {"t1", "t2"}

CacheKeys == {"alerts", "health"}

CacheValues == {"v1", "v2"}

\* time.monotonic() - ts > self._ttl, with the clock read t
EntryExpiredAtTtl(ts, t) == t - ts >= default_ttl

EntryExpired(ts, t) == t - ts > default_ttl

\* the lock can be taken
LockFree(holder) == holder = "none"

CacheInit ==
    /\ ChunkerIdle
    /\ pc = "idle"
    /\ LaterIdle
    /\ _store = [k \in CacheKeys |-> NoEntry]
    /\ _lock = "none"
    /\ now = 0
    /\ threads = [t \in Threads |-> IdleThread]
    /\ last_set = [k \in CacheKeys |-> NoEntry]

\* a thread calls get(key), set(key, value) or clear()
CacheCall(t) ==
    /\ threads[t].pc = "idle"
    /\ \E call \in ({"get"} \X CacheKeys \X {"None"})
                   \cup ({"set"} \X CacheKeys \X CacheValues)
                   \cup {<<"clear", "none", "None">>} :
           threads' = [threads EXCEPT ![t] = [IdleThread EXCEPT !.pc = "acquire",
                                                                !.op = call[1],
                                                                !.key = call[2],
                                                                !.value = call[3]]]
    /\ UNCHANGED <<chunkerVars, _store, _lock, now, last_set, laterVars>>

\* with self._lock: entry
CacheAcquire(t) ==
    /\ threads[t].pc = "acquire"
    /\ LockFree(_lock)
    /\ _lock' = t
    /\ threads' = [threads EXCEPT ![t].pc = threads[t].op]
    /\ UNCHANGED <<chunkerVars, _store, now, last_set, laterVars>>

\* get: entry = self._store.get(key); if entry is None: return None
GetLookup(t) ==
    /\ threads[t].pc = "get"
    /\ threads' = [threads EXCEPT ![t].entry = _store[threads[t].key],
                                  ![t].pc = IF _store[threads[t].key] = NoEntry
                                            THEN "release" ELSE "check"]
    /\ UNCHANGED <<chunkerVars, _store, _lock, now, last_set, laterVars>>

\* get: if time.monotonic() - ts > self._ttl ... else return val
GetCheck(t) ==
    /\ threads[t].pc = "check"
    /\ threads' = [threads EXCEPT ![t].t_now = now,
                                  ![t].ret = IF EntryExpired(threads[t].entry.ts, now)
                                             THEN "None" ELSE threads[t].entry.val,
                                  ![t].pc = IF EntryExpired(threads[t].entry.ts, now)
                                            THEN "del" ELSE "release"]
    /\ UNCHANGED <<chunkerVars, _store, _lock, now, last_set, laterVars>>

\* get: del self._store[key]; return None
GetDelete(t) ==
    /\ threads[t].pc = "del"
    /\ _store' = [_store EXCEPT ![threads[t].key] = NoEntry]
    /\ threads' = [threads EXCEPT ![t].pc = "release"]
    /\ UNCHANGED <<chunkerVars, _lock, now, last_set, laterVars>>

\* set: self._store[key] = (time.monotonic(), value)
CacheSet(t) ==
    /\ threads[t].pc = "set"
    /\ _store' = [_store EXCEPT ![threads[t].key] = [ts |-> now, val |-> threads[t].value]]
    /\ last_set' = [last_set EXCEPT ![threads[t].key] = [ts |-> now, val |-> threads[t].value]]
    /\ threads' = [threads EXCEPT ![t].pc = "release"]
    /\ UNCHANGED <<chunkerVars, _lock, now, laterVars>>

\* clear: self._store.clear()
CacheClear(t) ==
    /\ threads[t].pc = "clear"
    /\ _store' = [k \in CacheKeys |-> NoEntry]
    /\ last_set' = [k \in CacheKeys |-> NoEntry]
    /\ threads' = [threads EXCEPT ![t].pc = "release"]
    /\ UNCHANGED <<chunkerVars, _lock, now, laterVars>>

\* with self._lock: exit; the call returns
CacheRelease(t) ==
    /\ threads[t].pc = "release"
    /\ _lock' = "none"
    /\ threads' = [threads EXCEPT ![t] = IdleThread]
    /\ UNCHANGED <<chunkerVars, _store, now, last_set, laterVars>>

\* the clock advances
Tick ==
    /\ now < MaxClock
    /\ now' = now + 1
    /\ UNCHANGED <<chunkerVars, _store, _lock, threads, last_set, laterVars>>

CacheNext ==
    \/ \E t \in Threads : CacheCall(t)
    \/ \E t \in Threads : CacheAcquire(t)
    \/ \E t \in Threads : GetLookup(t)
    \/ \E t \in Threads : GetCheck(t)
    \/ \E t \in Threads : GetDelete(t)
    \/ \E t \in Threads : CacheSet(t)
    \/ \E t \in Threads : CacheClear(t)
    \/ \E t \in Threads : CacheRelease(t)
    \/ Tick

SpecCache == CacheInit /\ [][CacheNext]_vars

\* --------------------------------- specification: get_argocd_token

\* what the second segment of a token decodes to: no base64 or no JSON
\* ("garbage"), JSON that is no object ("not_object"), an object without exp
\* ("no_exp"), with an exp that is no number ("exp_text"), with a numeric exp
PayloadKinds == {"garbage", "not_object", "no_exp", "exp_text", "exp"}

\* the tokens a config can hold: one segment or three, and the payload
Tokens ==
    {[segments |-> n, kind |-> k, exp |-> e] :
        n \in {1, 3}, k \in PayloadKinds \ {"exp"}, e \in {0}}
    \cup {[segments |-> n, kind |-> "exp", exp |-> e] : n \in {1, 3}, e \in 0..MaxClock}

\* _jwt_expiry(token): the exp claim; kind "none" stands for None
_jwt_expiry(tok) ==
    IF tok.segments < 2 THEN [kind |-> "none", exp |-> 0]
    ELSE IF tok.kind \in {"garbage", "not_object", "no_exp"} THEN [kind |-> "none", exp |-> 0]
    ELSE IF tok.kind = "exp_text" THEN [kind |-> "text", exp |-> 0]
    ELSE [kind |-> "number", exp |-> tok.exp]

\* time.time() > exp raises TypeError for an exp that is no number
ExpiryCheckRaises(tok) == _jwt_expiry(tok).kind = "text"

\* _token_is_expired(token) at the time t, for a token the comparison accepts
_token_is_expired(tok, t) ==
    IF _jwt_expiry(tok).kind = "none" THEN FALSE ELSE t > _jwt_expiry(tok).exp

ArgoInit ==
    /\ ChunkerIdle
    /\ CacheIdle
    /\ TokenIdle
    /\ RunIdle
    /\ EmbedIdle
    /\ pc = "read"

\* token = _read_token_from_config()
ArgoRead ==
    /\ pc = "read"
    /\ token' \in Tokens \cup {EmptyToken}
    /\ pc' = "loaded"
    /\ UNCHANGED <<chunkerData, cacheVars, refreshed, runVars, embedVars>>

\* if not token: token = _refresh_token(), which exits when the login fails
ArgoEnsureToken ==
    /\ pc = "loaded"
    /\ IF token = EmptyToken
       THEN /\ refreshed' = TRUE
            /\ \/ pc' = "exit" /\ UNCHANGED token
               \/ pc' = "check" /\ token' \in Tokens
       ELSE pc' = "check" /\ UNCHANGED <<token, refreshed>>
    /\ UNCHANGED <<chunkerData, cacheVars, runVars, embedVars>>

\* if _token_is_expired(token): ...; return token
ArgoCheckExpiry ==
    /\ pc = "check"
    /\ pc' = IF ExpiryCheckRaises(token) THEN "raised"
             ELSE IF _token_is_expired(token, now) THEN "refresh"
             ELSE "returned"
    /\ UNCHANGED <<chunkerData, cacheVars, tokenVars, runVars, embedVars>>

\* token = _refresh_token()
ArgoRefresh ==
    /\ pc = "refresh"
    /\ refreshed' = TRUE
    /\ \/ pc' = "exit" /\ UNCHANGED token
       \/ pc' = "recheck" /\ token' \in Tokens
    /\ UNCHANGED <<chunkerData, cacheVars, runVars, embedVars>>

\* if _token_is_expired(token): sys.exit(1); return token
ArgoRecheck ==
    /\ pc = "recheck"
    /\ pc' = IF ExpiryCheckRaises(token) THEN "raised"
             ELSE IF _token_is_expired(token, now) THEN "exit"
             ELSE "returned"
    /\ UNCHANGED <<chunkerData, cacheVars, tokenVars, runVars, embedVars>>

\* time passes
ArgoTick ==
    /\ pc \in {"read", "loaded", "check", "refresh", "recheck"}
    /\ now < MaxClock
    /\ now' = now + 1
    /\ UNCHANGED <<chunkerVars, cacheData, tokenVars, runVars, embedVars>>

ArgoNext ==
    \/ ArgoRead
    \/ ArgoEnsureToken
    \/ ArgoCheckExpiry
    \/ ArgoRefresh
    \/ ArgoRecheck
    \/ ArgoTick

SpecArgo == ArgoInit /\ [][ArgoNext]_vars

\* --------------------------------- specification: index_repo, one run

\* the commit indexed before
PrevSha == <<"h", "0">>

\* the chunks embedded per batch
batch_size == 2

\* the most chunks a file has
MaxFileChunks == 2

\* the changed files, in sorted order
RunFiles == <<"a.md", "b.md">>

\* what the loop finds of a changed file at HEAD: it is gone, it cannot be read,
\* it is blank, or it has text that classify_and_chunk turns into n chunks
TreeEntries ==
    {[state |-> st, chunks |-> 0] : st \in {"deleted", "unreadable", "blank"}}
    \cup {[state |-> "text", chunks |-> n] : n \in 1..MaxFileChunks}

\* the points of the chunks 0..n-1 of a file, indexed at a commit
FilePoints(path, n, sha) ==
    {[filepath |-> path, chunk_index |-> idx, commit_sha |-> sha] : idx \in 0..(n - 1)}

\* _chunk_id: the id is determined by the file and the chunk index
_chunk_id(p) == <<p.filepath, p.chunk_index>>

\* client.upsert: a point replaces the stored point of the same id
Upsert(stored, batch) ==
    {p \in stored : \A q \in batch : _chunk_id(p) /= _chunk_id(q)} \cup batch

\* delete_file_points: the stored points without those of the file
delete_file_points(stored, path) == {p \in stored : p.filepath /= path}

\* sorted(eligible_files) from the k-th changed file on
RECURSIVE SortedFrom(_, _)
SortedFrom(files, k) ==
    IF k > Len(RunFiles) THEN <<>>
    ELSE (IF RunFiles[k] \in files THEN <<RunFiles[k]>> ELSE <<>>) \o SortedFrom(files, k + 1)

\* the SHA is saved with batches left
NextAfterUpsertEarly(next_i, total) == "save"

\* the loop over the batches goes on while i < len(all_texts), then the SHA is saved
NextAfterUpsert(next_i, total) == IF next_i < total THEN "embed" ELSE "save"

\* a store left by an earlier run on PrevSha in which every eligible file had up to
\* MaxFileChunks chunks; nothing is stored when no run was made
RunInit ==
    /\ ChunkerIdle
    /\ CacheIdle
    /\ TokenIdle
    /\ EmbedIdle
    /\ pc = "begin"
    /\ last_sha \in {NoSha, PrevSha, HeadSha}
    /\ old_sha = last_sha
    /\ eligible_files \in SUBSET {RunFiles[k] : k \in 1..Len(RunFiles)}
    /\ head_tree \in [{RunFiles[k] : k \in 1..Len(RunFiles)} -> TreeEntries]
    /\ \E had \in [{RunFiles[k] : k \in 1..Len(RunFiles)} -> 0..MaxFileChunks] :
           points = IF last_sha = NoSha THEN {}
                    ELSE UNION {FilePoints(f, had[f], PrevSha) : f \in eligible_files}
    /\ todo = <<>>
    /\ run_metadata = <<>>
    /\ batch_i = 0

\* if last_sha == head_sha: return; if not eligible_files: save and return
RunStart ==
    /\ pc = "begin"
    /\ pc' = IF last_sha = HeadSha THEN "unchanged"
             ELSE IF eligible_files = {} THEN "save"
             ELSE "file"
    /\ todo' = IF last_sha = HeadSha THEN <<>> ELSE SortedFrom(eligible_files, 1)
    /\ UNCHANGED <<chunkerData, cacheVars, tokenVars, embedVars, last_sha, old_sha, points, head_tree,
                   eligible_files, run_metadata, batch_i>>

\* a file that is gone, unreadable or blank is passed over
RunSkipFile ==
    /\ pc = "file"
    /\ todo /= <<>>
    /\ head_tree[Head(todo)].state /= "text"
    /\ todo' = Tail(todo)
    /\ UNCHANGED <<chunkerVars, cacheVars, tokenVars, embedVars, last_sha, old_sha, points, head_tree,
                   eligible_files, run_metadata, batch_i>>

\* delete_file_points(client, repo_slug, filepath), which may raise
RunDeletePoints ==
    /\ pc = "file"
    /\ todo /= <<>>
    /\ head_tree[Head(todo)].state = "text"
    /\ \/ pc' = "chunk" /\ points' = delete_file_points(points, Head(todo))
       \/ pc' = "raised" /\ UNCHANGED points
    /\ UNCHANGED <<chunkerData, cacheVars, tokenVars, embedVars, last_sha, old_sha, head_tree,
                   eligible_files, todo, run_metadata, batch_i>>

\* classify_and_chunk, which may raise, and the loop over its chunks
RunChunkFile ==
    /\ pc = "chunk"
    /\ \/ /\ pc' = "file"
          /\ run_metadata' = run_metadata \o
                 [idx \in 1..head_tree[Head(todo)].chunks |->
                     [filepath |-> Head(todo), chunk_index |-> idx - 1, commit_sha |-> HeadSha]]
          /\ todo' = Tail(todo)
       \/ pc' = "raised" /\ UNCHANGED <<todo, run_metadata>>
    /\ UNCHANGED <<chunkerData, cacheVars, tokenVars, embedVars, last_sha, old_sha, points, head_tree,
                   eligible_files, batch_i>>

\* the loop over the files has ended
RunFilesDone ==
    /\ pc = "file"
    /\ todo = <<>>
    /\ pc' = NextAfterUpsert(0, Len(run_metadata))
    /\ UNCHANGED <<chunkerData, cacheVars, tokenVars, embedVars, runVars>>

\* one batch: embed_texts, the points, client.upsert; any of them may raise
RunUpsertBatch ==
    /\ pc = "embed"
    /\ \/ /\ points' = Upsert(points,
                             {run_metadata[n] :
                                 n \in (batch_i + 1)..Min(batch_i + batch_size, Len(run_metadata))})
          /\ batch_i' = batch_i + batch_size
          /\ pc' = NextAfterUpsert(batch_i + batch_size, Len(run_metadata))
       \/ pc' = "raised" /\ UNCHANGED <<points, batch_i>>
    /\ UNCHANGED <<chunkerData, cacheVars, tokenVars, embedVars, last_sha, old_sha, head_tree,
                   eligible_files, todo, run_metadata>>

\* save_last_sha(client, repo_slug, head_sha), which may raise
RunSaveSha ==
    /\ pc = "save"
    /\ \/ pc' = "finished" /\ last_sha' = HeadSha
       \/ pc' = "raised" /\ UNCHANGED last_sha
    /\ UNCHANGED <<chunkerData, cacheVars, tokenVars, embedVars, old_sha, points, head_tree,
                   eligible_files, todo, run_metadata, batch_i>>

RunNext ==
    \/ RunStart
    \/ RunSkipFile
    \/ RunDeletePoints
    \/ RunChunkFile
    \/ RunFilesDone
    \/ RunUpsertBatch
    \/ RunSaveSha

SpecRun == RunInit /\ [][RunNext]_vars

\* --------------------------------- specification: _embed_single

RETRY_MAX == 3

\* what a POST comes to: requests raises ("error"), or a response with a status
\* (200, another status below 400, a status from 400 on) and a body: embeddings
\* with a first vector, an empty list of embeddings, JSON without the key
\* "embeddings", or no JSON
Responses ==
    {[status |-> "error", body |-> "none"]}
    \cup {[status |-> st, body |-> b] :
            st \in {"200", "below_400", "from_400"},
            b \in {"vector", "no_items", "no_key", "not_json"}}

\* resp.json() and data["embeddings"][0]: the value returned, the exception the
\* handler catches (KeyError, and the JSON error where requests raises its own),
\* or the exception that leaves the function (IndexError, and the JSON error
\* where requests raises ValueError)
ParseOutcomes(body) ==
    CASE body = "vector" -> {"embedding"}
      [] body = "no_items" -> {"uncaught"}
      [] body = "no_key" -> {"caught"}
      [] body = "not_json" -> {"caught", "uncaught"}

\* what one attempt comes to: "retry", "raise", or a value returned
AttemptOutcomes(r, n) ==
    IF r.status = "error" THEN {IF n < RETRY_MAX THEN "retry" ELSE "raise"}
    ELSE IF r.status /= "200" /\ n < RETRY_MAX THEN {"retry"}
    ELSE IF r.status = "from_400" THEN {"raise"}
    ELSE {IF o = "caught" THEN (IF n < RETRY_MAX THEN "retry" ELSE "raise")
          ELSE IF o = "uncaught" THEN "raise"
          ELSE o : o \in ParseOutcomes(r.body)}

EmbedInit ==
    /\ ChunkerIdle
    /\ CacheIdle
    /\ TokenIdle
    /\ RunIdle
    /\ pc = "post"
    /\ attempt = 1
    /\ posts = <<>>
    /\ resp = NoResponse
    /\ result = "none"

\* one iteration of the loop: the POST and what follows it; after the last
\* iteration the function returns []
EmbedAttempt ==
    /\ pc = "post"
    /\ \E r \in Responses :
           \E o \in AttemptOutcomes(r, attempt) :
               /\ resp' = r
               /\ posts' = Append(posts, r)
               /\ attempt' = IF o = "retry" THEN attempt + 1 ELSE attempt
               /\ pc' = IF o = "retry" THEN (IF attempt + 1 <= RETRY_MAX THEN "post" ELSE "returned")
                        ELSE IF o = "raise" THEN "raised"
                        ELSE "returned"
               /\ result' = IF o = "retry" THEN (IF attempt + 1 <= RETRY_MAX THEN "none" ELSE "empty")
                            ELSE IF o = "raise" THEN "none"
                            ELSE o
    /\ UNCHANGED <<chunkerData, cacheVars, tokenVars, runVars>>

\* the caller takes the result
EmbedDone ==
    /\ pc \in {"returned", "raised"}
    /\ pc' = "end"
    /\ UNCHANGED <<chunkerData, cacheVars, tokenVars, runVars, embedVars>>

EmbedNext == EmbedAttempt \/ EmbedDone

SpecEmbed == EmbedInit /\ [][EmbedNext]_vars

\* --------------------------- specification: the scan of chunk_go to its end

MaxTermLines == 3

\* comment lines, declarations, an open block comment and a string
TermLines ==
    { <<"/", "/", "d">>,
      <<"f", "u", "n", "c", " ", "A", "(", ")", "{">>,
      <<"}">>,
      <<"/", "*">>,
      <<"u", ":", "=", "\"", "/", "/", "\"">>,
      <<>> }

GoTermInit ==
    /\ filepath = P_main_go
    /\ text \in TextsOf(TermLines, MaxTermLines)
    /\ ConfigDefault
    /\ pc = "scan"
    /\ ScanIdle
    /\ ChunksIdle
    /\ RedactIdle
    /\ IndexIdle
    /\ OtherIdle

\* while i < len(text): the condition fails and the loop is left
GoLoopExit ==
    /\ pc = "scan"
    /\ i >= Len(text)
    /\ pc' = "scanned"
    /\ UNCHANGED <<text, filepath, configVars, scanVars, boundaries, preamble, tagged, final,
                   redactVars, indexVars, otherVars>>

GoTermNext == GoScan \/ GoLoopExit

\* the loop is sequential code that runs on: no iteration and no test of the loop
\* condition is put off for ever
SpecGoTerm == GoTermInit /\ [][GoTermNext]_vars /\ WF_vars(GoScan) /\ WF_vars(GoLoopExit)

\* ------------------------------------------------------------------ claims

\* C1: every chunk classify_and_chunk returns has a text of at most EMBED_MAX_CHARS
\* characters.
C1_WithinBudget ==
    pc = "done" => \A n \in 1..Len(final) : Len(final[n].text) <= EMBED_MAX_CHARS

\* --- the YAML documents of a file, as the claims speak of them

\* the runs of lines between the document markers, from the n-th line
RECURSIVE DocSplit(_, _, _)
DocSplit(ls, n, cur) ==
    IF n > Len(ls) THEN <<cur>>
    ELSE IF YLineKind(ls[n]) = "marker" THEN <<cur>> \o DocSplit(ls, n + 1, <<>>)
    ELSE DocSplit(ls, n + 1, Append(cur, ls[n]))

JoinAll(docs) == [n \in DOMAIN docs |-> Join(docs[n], <<"\n">>)]

\* the documents of the stream t as they stand in it, empty ones included
YamlDocs(t) == JoinAll(DocSplit(YLines(t), 1, <<>>))

\* a document (a text without markers) that is a mapping whose top-level kind is Secret
IsSecretDoc(d) == IsSecretObj(SafeLoad(d))

NonEmptyDocs(t) == SelectSeq(YamlDocs(t), LAMBDA d : Strip(d) /= <<>>)

\* the documents chunk_k8s_yaml is to keep, in document order
KeptDocs(t) == SelectSeq(NonEmptyDocs(t), LAMBDA d : ~IsSecretDoc(d))

SecretDocs(t) == SelectSeq(NonEmptyDocs(t), LAMBDA d : IsSecretDoc(d))

StrippedLinesOf(ls) == {Strip(ls[n]) : n \in DOMAIN ls} \ {<<>>}

\* the non-blank lines of a text, trimmed
ContentLines(t) == StrippedLinesOf(YLines(t))

LinesOfDocs(docs) == UNION {ContentLines(redact_secrets(docs[n])) : n \in DOMAIN docs}

\* a chunk text holds a line that the file has in its Secret documents only
LeaksOf(chunk_text, secret_lines, plain_lines) ==
    \E l \in ContentLines(chunk_text) : l \in secret_lines /\ l \notin plain_lines

Leaks(chunk_text, t) ==
    LeaksOf(chunk_text, LinesOfDocs(SecretDocs(t)), LinesOfDocs(KeptDocs(t)))

\* the chunks that hold a line of content, beyond markers and blank lines
HasContent(chunk) == \E l \in ContentLines(chunk.text) : YLineKind(l) /= "marker"

\* the chunks stand one for one, in order, for the documents
OneChunkPerDoc(chunks, docs) ==
    /\ Len(chunks) = Len(docs)
    /\ \A n \in DOMAIN docs :
           n <= Len(chunks) => Contains(chunks[n].text, redact_secrets(Strip(docs[n])))

IsK8sFile == ChunkType(filepath) = "k8s-yaml"

IsYamlFile == ChunkType(filepath) \in {"k8s-yaml", "helm-values"}

\* C2: for a multi-document Kubernetes YAML file chunk_k8s_yaml emits no chunk
\* derived from a document whose top-level kind is Secret, and every non-empty
\* sibling document that is not a Secret yields exactly one chunk, in document order.
C2_SecretsDroppedSiblingsKept ==
    (IsK8sFile /\ pc \in {"chunked", "raised"}) =>
        /\ pc = "chunked"
        /\ \A n \in 1..Len(tagged) : ~Leaks(tagged[n].text, text)
        /\ OneChunkPerDoc(SelectSeq(tagged, HasContent), KeptDocs(text))

\* C3: for every .yaml/.yml file, whichever of the two YAML strategies the
\* dispatcher selects, no chunk classify_and_chunk returns holds the content of a
\* document whose top-level kind is Secret, redacted or not.
C3_NoSecretFromDispatcher ==
    (IsYamlFile /\ pc = "done") => \A n \in 1..Len(final) : ~Leaks(final[n].text, text)

\* C6: classify_and_chunk never raises, whatever the text: malformed YAML and a
\* metadata that is null or not a mapping included.
C6_NeverRaises == pc /= "raised"

\* a YAML file whose documents are all empty or Secrets
OnlyEmptyOrSecret == IsYamlFile /\ KeptDocs(text) = <<>>

\* C7: an input that is not empty and does not consist only of Secret documents
\* yields at least one chunk whose trimmed text is not empty; the empty list is
\* returned only for YAML inputs made of empty and Secret documents.
C7_SomeChunk ==
    pc \in {"done", "raised"} =>
        /\ (Strip(text) /= <<>> /\ ~OnlyEmptyOrSecret) =>
               /\ pc = "done"
               /\ \E n \in 1..Len(final) : Strip(final[n].text) /= <<>>
        /\ (pc = "done" /\ final = <<>>) => OnlyEmptyOrSecret

\* --- Go as the language defines it: where strings and comments really are

\* the lexical state after the character at index k, given the state before it
\* (ctx), the brace depth, and whether the character is skipped as the second of a
\* pair; ok is false from the first ill-formed point on
LexNext(t, k, st) ==
    LET ch == At(t, k)
        nxt == IF k + 1 < Len(t) THEN At(t, k + 1) ELSE ""
    IN  IF st.skip THEN [st EXCEPT !.skip = FALSE]
        ELSE CASE st.ctx = "code" ->
                 IF ch = "/" /\ nxt = "/" THEN [st EXCEPT !.ctx = "line", !.skip = TRUE]
                 ELSE IF ch = "/" /\ nxt = "*" THEN [st EXCEPT !.ctx = "block", !.skip = TRUE]
                 ELSE IF ch = "\"" THEN [st EXCEPT !.ctx = "string"]
                 ELSE IF ch = BackQuote THEN [st EXCEPT !.ctx = "raw"]
                 ELSE IF ch = "'" THEN [st EXCEPT !.ctx = "rune"]
                 ELSE IF ch = "{" THEN [st EXCEPT !.depth = @ + 1]
                 ELSE IF ch = "}" THEN [st EXCEPT !.depth = @ - 1, !.ok = st.ok /\ st.depth > 0]
                 ELSE st
               [] st.ctx = "line" -> IF ch = "\n" THEN [st EXCEPT !.ctx = "code"] ELSE st
               [] st.ctx = "block" ->
                 IF ch = "*" /\ nxt = "/" THEN [st EXCEPT !.ctx = "code", !.skip = TRUE] ELSE st
               [] st.ctx = "raw" -> IF ch = BackQuote THEN [st EXCEPT !.ctx = "code"] ELSE st
               [] st.ctx \in {"string", "rune"} ->
                 IF ch = "\\" THEN [st EXCEPT !.skip = TRUE]
                 ELSE IF ch = "\n" THEN [st EXCEPT !.ctx = "code", !.ok = FALSE]
                 ELSE IF (st.ctx = "string" /\ ch = "\"") \/ (st.ctx = "rune" /\ ch = "'")
                      THEN [st EXCEPT !.ctx = "code"]
                 ELSE st

\* the lexical state before the character at index k
RECURSIVE LexAt(_, _)
LexAt(t, k) ==
    IF k = 0 THEN [ctx |-> "code", depth |-> 0, skip |-> FALSE, ok |-> TRUE]
    ELSE LexNext(t, k - 1, LexAt(t, k - 1))

LexEndsWell(st) == st.ok /\ ~st.skip /\ st.ctx \in {"code", "line"} /\ st.depth = 0

\* every string and comment is closed and the braces balance
WellFormed(t) == LexEndsWell(LexAt(t, Len(t)))

\* the line that starts at index k is code at the top level
IsTopLevelCode(st) == st.ctx = "code" /\ ~st.skip /\ st.depth = 0

\* the declarations that really are at the top level: the lines that start one
RealTopDecls(t) ==
    {k \in LineStarts(t) : k < Len(t) /\ GoIsDecl(t, k) /\ IsTopLevelCode(LexAt(t, k))}

\* the iteration the scan is about to run appends a boundary
AddsBoundary ==
    /\ pc = "scan"
    /\ i < Len(text)
    /\ GoScanStep(text, ScanState).boundaries /= boundaries

OnlyDeclIsAFunc(decls) ==
    /\ Cardinality(decls) = 1
    /\ \A k \in decls : StartsWithAt(text, k, W_func)

\* C4: in a well-formed Go file no boundary is created at a line that lies inside
\* a string literal, a raw string, a line comment or a block comment, and a file
\* whose one real declaration is a function yields exactly one declaration chunk.
C4_DeclIsolation ==
    /\ AddsBoundary => (WellFormed(text) => LexAt(text, i).ctx = "code")
    /\ (pc = "chunked" /\ boundaries /= <<>>) =>
           ((WellFormed(text) /\ OnlyDeclIsAFunc(RealTopDecls(text))) => Len(boundaries) = 1)
    /\ (pc = "chunked" /\ boundaries = <<>>) =>
           (WellFormed(text) => RealTopDecls(text) = {})

\* C5: in a well-formed Go file a declaration keyword at brace depth above zero
\* never creates a boundary, and every real top-level declaration gets a chunk of
\* its own, so that a function's chunk ends at the next one.
C5_NestedBraceSafety ==
    /\ AddsBoundary => (WellFormed(text) => LexAt(text, i).depth = 0)
    /\ pc = "chunked" =>
           (WellFormed(text) => Len(boundaries) = Cardinality(RealTopDecls(text)))

\* --- reassembly of a source file from its chunks

IsCodeFile == ChunkType(filepath) \in {"go-code", "python-code"}

TextsOfChunks(chunks) == [n \in DOMAIN chunks |-> chunks[n].text]

\* the texts of the declaration chunks, in order
DeclTexts == TextsOfChunks(SelectSeq(tagged, LAMBDA c : c.symbol_type /= "file_overview"))

\* t from index k on is the pieces from the n-th on, in order, with nothing but
\* white space before, between and after them
RECURSIVE Covers(_, _, _, _)
Covers(t, k, pieces, n) ==
    IF n > Len(pieces) THEN SkipSpace(t, k) = Len(t)
    ELSE \E a \in k..SkipSpace(t, k) :
             /\ StartsWithAt(t, a, pieces[n])
             /\ Covers(t, a + Len(pieces[n]), pieces, n + 1)

\* the overview chunk is there exactly when there is a preamble, and opens with it
OverviewHoldsPreamble ==
    IF preamble = <<>>
    THEN \A n \in 1..Len(tagged) : tagged[n].symbol_type /= "file_overview"
    ELSE /\ tagged /= <<>>
         /\ tagged[1].symbol_type = "file_overview"
         /\ StartsWithAt(tagged[1].text, 0, preamble)

\* C8: when chunk_go or chunk_python finds at least one boundary, the preamble
\* followed by the declaration chunk texts in order reproduces the file up to
\* white space at the chunk boundaries, and the boundaries are strictly increasing.
C8_CodeChunksComplete ==
    (pc = "chunked" /\ IsCodeFile /\ boundaries /= <<>>) =>
        /\ \A n \in 1..(Len(boundaries) - 1) : boundaries[n] < boundaries[n + 1]
        /\ Len(DeclTexts) = Len(boundaries)
        /\ OverviewHoldsPreamble
        /\ Covers(text, 0, <<preamble>> \o DeclTexts, 1)

\* a Go file with a preamble and two declarations, chunked, white space trimmed away
C8_Witness ==
    /\ pc = "chunked"
    /\ ChunkType(filepath) = "go-code"
    /\ preamble /= <<>>
    /\ Len(boundaries) >= 2
    /\ Len(preamble) + Len(Flatten(DeclTexts)) < Len(text)

\* --- the headings and body lines of a Markdown file

\* what a line of the file is: a heading with its text, a body line, or blank
MdItem(l) ==
    IF MdIsHeading(l) THEN << <<"h", MdHeadingText(l)>> >>
    ELSE IF Strip(l) /= <<>> THEN << <<"b", Strip(l)>> >>
    ELSE <<>>

RECURSIVE ItemsOf(_, _)
ItemsOf(lines, n) ==
    IF n > Len(lines) THEN <<>> ELSE MdItem(lines[n]) \o ItemsOf(lines, n + 1)

\* the headings and non-blank body lines of a text, in order
SourceItems(t) == ItemsOf(SplitLines(t), 1)

RECURSIVE BodyItemsOf(_, _)
BodyItemsOf(lines, n) ==
    IF n > Len(lines) THEN <<>>
    ELSE (IF Strip(lines[n]) /= <<>> THEN << <<"b", Strip(lines[n])>> >> ELSE <<>>)
         \o BodyItemsOf(lines, n + 1)

ChunkHead(chunk) == <<"#", " ">> \o chunk.heading \o <<"\n", "\n">>

\* a chunk read as its heading followed by its body; the section before the first
\* heading is headed by the file path, which is no heading of the file, and the
\* chunk that is the whole file is read as the file is
ChunkItems(chunk) ==
    IF StartsWithAt(chunk.text, 0, ChunkHead(chunk))
    THEN (IF chunk.heading = filepath THEN <<>> ELSE << <<"h", chunk.heading>> >>)
         \o BodyItemsOf(SplitLines(PySlice(chunk.text, Len(ChunkHead(chunk)),
                                           Len(chunk.text))), 1)
    ELSE SourceItems(chunk.text)

RECURSIVE AllChunkItems(_, _)
AllChunkItems(chunks, n) ==
    IF n > Len(chunks) THEN <<>>
    ELSE ChunkItems(chunks[n]) \o AllChunkItems(chunks, n + 1)

\* the items without the headings that no body line follows
RECURSIVE DropBare(_, _)
DropBare(items, n) ==
    IF n > Len(items) THEN <<>>
    ELSE (IF items[n][1] = "h" /\ (n = Len(items) \/ items[n + 1][1] = "h")
          THEN <<>> ELSE <<items[n]>>)
         \o DropBare(items, n + 1)

\* what chunk_markdown keeps: everything when no section has a body, and otherwise
\* the body lines and the headings of the sections that have one
KeptItems(items) ==
    IF \A n \in DOMAIN items : items[n][1] = "h" THEN items ELSE DropBare(items, 1)

IsMarkdownFile == ChunkType(filepath) = "markdown"

\* C9: the chunks of chunk_markdown, each read as its heading followed by its
\* body, account for every heading line and every non-blank body line of the file
\* in source order: no heading and no body text is dropped.
C9_NothingDropped ==
    (pc = "chunked" /\ IsMarkdownFile) => AllChunkItems(tagged, 1) = SourceItems(text)

\* C9, as the code has it: the chunks account, in source order, for every
\* non-blank body line and for every heading whose section has a non-blank body;
\* a heading whose section has none is dropped, unless no section of the file has
\* a body, and then the whole file is the one chunk.
C9_BodiesAndHeadedSectionsKept ==
    (pc = "chunked" /\ IsMarkdownFile) =>
        AllChunkItems(tagged, 1) = KeptItems(SourceItems(text))

\* a Markdown file chunked with one heading dropped and another kept
C9_Witness ==
    /\ pc = "chunked"
    /\ IsMarkdownFile
    /\ Len(KeptItems(SourceItems(text))) < Len(SourceItems(text))
    /\ \E n \in 1..Len(tagged) : tagged[n].heading /= filepath

\* C10: redaction is idempotent: redact_secrets(redact_secrets(x)) = redact_secrets(x)
\* for every text x.
C10_RedactIdempotent == pc = "twice" => twice = once

\* C11: every chunk text classify_and_chunk returns, whatever its chunk_type, has
\* been through redact_secrets: redacting it again replaces nothing, so no
\* emitted text still holds a substring a secret pattern matches.
C11_EveryTextRedacted ==
    pc = "done" => \A n \in 1..Len(final) : redact_secrets(final[n].text) = final[n].text

\* --- the oversize guard, as the claim words it

\* out[pos .. pos + n - 1] are the n sub-parts of chunk: their texts joined give
\* the chunk's text, each carries the chunk's other fields unchanged, and
\* sub_chunk is "m/n" when n > 1 and absent when n = 1
IsSplitOf(out, pos, n, chunk) ==
    /\ Flatten([m \in 1..n |-> out[pos + m - 1].text]) = chunk.text
    /\ \A m \in 1..n :
           /\ DOMAIN out[pos + m - 1] =
                  DOMAIN chunk \cup (IF n > 1 THEN {"sub_chunk"} ELSE {})
           /\ \A f \in DOMAIN chunk \ {"text"} : out[pos + m - 1][f] = chunk[f]
           /\ n > 1 => out[pos + m - 1].sub_chunk = DecStr(m) \o <<"/">> \o DecStr(n)

\* out from pos on is what the chunks from the k-th on become: a chunk within the
\* budget is emitted as it is, a longer one as its consecutive sub-parts
RECURSIVE GuardedFrom(_, _, _, _, _)
GuardedFrom(chunks, k, out, pos, budget) ==
    IF k > Len(chunks) THEN pos = Len(out) + 1
    ELSE IF Len(chunks[k].text) <= budget
         THEN /\ pos <= Len(out)
              /\ out[pos] = chunks[k]
              /\ GuardedFrom(chunks, k + 1, out, pos + 1, budget)
         ELSE \E n \in 1..(Len(out) - pos + 1) :
                  /\ IsSplitOf(out, pos, n, chunks[k])
                  /\ GuardedFrom(chunks, k + 1, out, pos + n, budget)

\* C12: the oversize guard is lossless and keeps metadata: a chunk longer than
\* EMBED_MAX_CHARS is emitted as consecutive sub-parts, in order, whose texts
\* joined are the chunk's text, each with every other field unchanged and with
\* sub_chunk "i/n" exactly when n > 1; a chunk within the budget is emitted
\* unchanged, without sub_chunk.
C12_GuardLossless ==
    pc = "done" => GuardedFrom(tagged, 1, final, 1, EMBED_MAX_CHARS)

\* a file whose chunks were split: one chunk within the budget kept as it is, and
\* one split in two parts that carry its metadata
C12_Witness ==
    /\ pc = "done"
    /\ Len(tagged) >= 2
    /\ \E k \in 1..Len(tagged) : Len(tagged[k].text) <= EMBED_MAX_CHARS
    /\ \E n \in 1..Len(final) :
           /\ "sub_chunk" \in DOMAIN final[n]
           /\ final[n].sub_chunk = <<"2", "/", "2">>
           /\ DOMAIN final[n] \ {"text", "sub_chunk", "chunk_type"} /= {}

\* --- what index_repo collects for embedding

\* a text that is empty after whitespace trimming
IsBlank(t) == \A k \in 1..Len(t) : IsSpace(t[k])

\* the indices (0-based) of the chunks from the k-th on whose text is not blank
RECURSIVE NonBlankIndices(_, _)
NonBlankIndices(chunks, k) ==
    IF k > Len(chunks) THEN <<>>
    ELSE (IF IsBlank(chunks[k].text) THEN <<>> ELSE <<k - 1>>)
         \o NonBlankIndices(chunks, k + 1)

\* t ends with w
EndsWith(t, w) == Len(w) <= Len(t) /\ SubSeq(t, Len(t) - Len(w) + 1, Len(t)) = w

\* C13: every chunk index_repo collects for embedding and upsert has a text that
\* is not empty after trimming: a whitespace-only file is skipped before it is
\* chunked, and of the chunks classify_and_chunk returns exactly those with a
\* non-blank text are collected, each search text ending with its chunk's text.
C13_EmbeddedNonBlank ==
    /\ pc \in {"start", "chunked", "done", "collected"} => ~IsBlank(text)
    /\ pc = "skipped" => IsBlank(text) /\ all_texts = <<>> /\ all_metadata = <<>>
    /\ pc = "collected" =>
           /\ [n \in 1..Len(all_metadata) |-> all_metadata[n].chunk_index]
                  = NonBlankIndices(final, 1)
           /\ Len(all_texts) = Len(all_metadata)
           /\ \A n \in 1..Len(all_texts) :
                  /\ ~IsBlank(final[all_metadata[n].chunk_index + 1].text)
                  /\ EndsWith(all_texts[n], final[all_metadata[n].chunk_index + 1].text)

\* a file whose chunks were collected, a whitespace-only one among them left out
C13_Witness ==
    /\ pc = "collected"
    /\ \E n \in 1..Len(final) : IsBlank(final[n].text)
    /\ all_texts /= <<>>

\* --- the dispatch rule, as the claim words it

\* the greatest element of a non-empty set of numbers
Greatest(S) == CHOOSE k \in S : \A j \in S : j <= k

\* the file name of a path: what follows its last "/"
FileNameOf(path) ==
    LET slashes == {k \in 1..Len(path) : path[k] = "/"}
    IN  IF slashes = {} THEN path ELSE SubSeq(path, Greatest(slashes) + 1, Len(path))

\* the extension of a file name: from its last "." on, none for a name without a
\* "." after its first character
ExtensionOf(name) ==
    LET dots == {k \in 2..Len(name) : name[k] = "."}
    IN  IF dots = {} THEN <<>> ELSE SubSeq(name, Greatest(dots), Len(name))

\* the rules in their order of precedence: the first that applies gives the type
DispatchRules(ext, name) ==
    << <<ext \in {W_md, W_mmd}, "markdown">>,
       <<ext = W_go, "go-code">>,
       <<ext = W_py, "python-code">>,
       <<ext \in {W_yaml, W_yml}
            /\ ((\E k \in 1..(Len(name) - 5) : SubSeq(name, k, k + 5) = W_values)
                \/ name = W_chart_yaml), "helm-values">>,
       <<ext \in {W_yaml, W_yml}, "k8s-yaml">>,
       <<TRUE, "generic">> >>

ExpectedType(path) ==
    LET rules == DispatchRules(Lower(ExtensionOf(FileNameOf(path))), Lower(FileNameOf(path)))
    IN  rules[CHOOSE n \in 1..Len(rules) : rules[n][1] /\ \A m \in 1..(n - 1) : ~rules[m][1]][2]

\* C14: dispatch is total and follows one order of precedence on the lower-cased
\* extension and file name (.md/.mmd, .go, .py, Helm values YAML, other YAML,
\* everything else), and every chunk returned for the file carries the one
\* chunk_type of the rule that applies.
C14_DispatchPrecedence ==
    /\ pc = "chunked" =>
           \A n \in 1..Len(tagged) : tagged[n].chunk_type = ExpectedType(filepath)
    /\ pc \in {"done", "collected"} =>
           \A n \in 1..Len(final) : final[n].chunk_type = ExpectedType(filepath)

\* Chart.yaml, a Helm values file by its lower-cased name, was chunked
C14_Witness ==
    /\ pc = "done"
    /\ filepath = P_chart
    /\ final /= <<>>
    /\ \A n \in 1..Len(final) : final[n].chunk_type = "helm-values"

\* --- the chunks of a Helm values file

IsHelmFile == ChunkType(filepath) = "helm-values"

\* the one chunk of the fallback: the whole redacted text, section root
RootChunk(t) == [text |-> redact_secrets(t), section |-> W_root, chunk_type |-> "helm-values"]

\* the chunk of the n-th top-level key of a mapping
KeyChunk(obj, n) ==
    [text |-> redact_secrets(YDump(obj.keys[n], obj.vals[n])), section |-> obj.keys[n],
     chunk_type |-> "helm-values"]

\* what the claim expects of a file given its parsed value
HelmExpected(t, obj) ==
    IF obj.tag /= "map" \/ obj.keys = <<>>
    THEN <<RootChunk(t)>>
    ELSE [n \in 1..Len(obj.keys) |-> KeyChunk(obj, n)]

\* C15: chunk_helm_values returns exactly one chunk, section root, holding the
\* redacted whole text when the file does not parse, when its top level is not a
\* mapping or when the mapping has no key; otherwise one chunk per top-level key,
\* in the order of the mapping, with section the key and text the redacted
\* serialization of {key: value}.
C15_HelmChunks ==
    (pc = "chunked" /\ IsHelmFile) => tagged = HelmExpected(text, SafeLoad(text))

\* a Helm values file with two top-level keys, not in sorted order, was chunked
C15_Witness ==
    /\ pc = "chunked"
    /\ IsHelmFile
    /\ Len(tagged) = 2
    /\ tagged[1].section = W_token
    /\ tagged[2].section /= W_root

\* --- the file_overview chunk of a Go file

IsGoFile == ChunkType(filepath) = "go-code"

\* a symbol_type written out
TypeWord(type) ==
    CASE type = "method" -> W_method [] type = "function" -> W_function
      [] type = "type" -> W_type [] type = "var" -> W_var [] type = "const" -> W_const
      [] type = "unknown" -> W_unknown

\* "<symbol_type> <name>" for each chunk from the n-th on whose symbol starts with
\* an uppercase letter, in order
RECURSIVE ListedSymbols(_, _)
ListedSymbols(chunks, n) ==
    IF n > Len(chunks) THEN <<>>
    ELSE (IF chunks[n].symbol /= <<>> /\ IsUpper(chunks[n].symbol[1])
          THEN <<TypeWord(chunks[n].symbol_type) \o <<" ">> \o chunks[n].symbol>>
          ELSE <<>>)
         \o ListedSymbols(chunks, n + 1)

\* the text of the overview: the trimmed preamble, a line break, and when symbols
\* are listed an empty line and the line that lists them
OverviewText(pre, listed) ==
    pre \o <<"\n">>
    \o (IF listed = <<>> THEN <<>>
        ELSE <<"\n">> \o W_exported \o Join(listed, <<",", " ">>))

C17_WholeFileFallback ==
    (pc = "chunked" /\ IsCodeFile /\ boundaries = <<>>) =>
        /\ Len(tagged) = 1
        /\ tagged[1].text = text
        /\ tagged[1].symbol = filepath
        /\ tagged[1].symbol_type = "file"

\* a Go file without declarations, blank at both ends, came back as one chunk
C17_Witness ==
    /\ pc = "chunked"
    /\ IsGoFile
    /\ boundaries = <<>>
    /\ Len(text) > 2
    /\ text[1] = "\n"
    /\ text[Len(text)] = "\n"
    /\ Len(tagged) = 1

\* --- the lexical-context flags of the scan

\* how many of the four flags are set
FlagsSet ==
    Cardinality({f \in {"in_string", "in_raw_string", "in_line_comment", "in_block_comment"} :
                    ScanState[f]})

\* C18: in every state of the scan of chunk_go at most one of in_string,
\* in_raw_string, in_line_comment and in_block_comment is true: a comment opener
\* met inside a double-quoted or raw string sets no comment flag.
C18_FlagsExclusive == pc = "scan" => FlagsSet <= 1

PrevLineStart(t, d) ==
    LET breaks == {k \in 0..(d - 2) : At(t, k) = "\n"}
    IN  IF breaks = {} THEN 0 ELSE Greatest(breaks) + 1

\* the line from p up to the line break at d - 1 is a // comment line
IsCommentLine(t, p, d) == StartsWithAt(Strip(PySlice(t, p, d - 1)), 0, W_slashes)

\* the start of the maximal run of // comment lines right above the line at d
RECURSIVE DocRunStart(_, _)
DocRunStart(t, d) ==
    IF d = 0 THEN 0
    ELSE IF IsCommentLine(t, PrevLineStart(t, d), d) THEN DocRunStart(t, PrevLineStart(t, d))
    ELSE d

\* C20: the boundary chunk_go records for a declaration is the start of the
\* maximal run of contiguous // comment lines immediately above the declaration
\* line, the declaration line itself when there is none: a comment line separated
\* from the declaration or from the rest of the run by a blank line or any other
\* line is not part of the declaration's chunk.
C20_DocCommentRun ==
    AddsBoundary =>
        GoScanStep(text, ScanState).boundaries = Append(boundaries, DocRunStart(text, i))

\* --- the symbol of a Go declaration chunk

\* the first line of t that is not a // comment line, empty when there is none
RECURSIVE FirstNonComment(_, _)
FirstNonComment(lines, n) ==
    IF n > Len(lines) THEN <<>>
    ELSE IF StartsWithAt(Strip(lines[n]), 0, W_slashes) THEN FirstNonComment(lines, n + 1)
    ELSE lines[n]

\* the forms of a declaration line: <<name, symbol_type>>, the name empty when the
\* line has none of the forms
LineForm(line) ==
    IF MethodName(line) /= <<>> THEN <<MethodName(line), "method">>
    ELSE IF KeywordName(line, W_func) /= <<>> THEN <<KeywordName(line, W_func), "function">>
    ELSE IF KeywordName(line, W_type) /= <<>> THEN <<KeywordName(line, W_type), "type">>
    ELSE IF KeywordName(line, W_var) /= <<>> THEN <<KeywordName(line, W_var), "var">>
    ELSE IF KeywordName(line, W_const) /= <<>> THEN <<KeywordName(line, W_const), "const">>
    ELSE <<<<>>, "unknown">>

\* the chunk of the k-th declaration: the overview chunk, when there is one, is first
DeclChunk(k) == tagged[Len(tagged) - Len(boundaries) + k]

\* C21: symbol and symbol_type of every declaration chunk of chunk_go come from
\* the chunk's first non-comment line: func (recv) Name is a method, func Name a
\* function, type, var and const Name are a type, var and const, each named Name;
\* the chunk is decl_<index>, unknown, exactly when that line has none of the forms.
C21_SymbolFromFirstLine ==
    (pc = "chunked" /\ IsGoFile /\ boundaries /= <<>>) =>
        \A k \in 1..Len(boundaries) :
            LET form == LineForm(FirstNonComment(SplitLines(DeclChunk(k).text), 1))
            IN  IF form[1] /= <<>>
                THEN DeclChunk(k).symbol = form[1] /\ DeclChunk(k).symbol_type = form[2]
                ELSE /\ DeclChunk(k).symbol = W_decl_ \o DecStr(k - 1)
                     /\ DeclChunk(k).symbol_type = "unknown"

\* ---- C22
IsPyFile == ChunkType(filepath) = "python-code"

\* the first line of a chunk that is not a comment line at column 0
RECURSIVE FirstNonHash(_, _)
FirstNonHash(lines, n) ==
    IF n > Len(lines) THEN <<>>
    ELSE IF StartsWithAt(lines[n], 0, <<"#">>) THEN FirstNonHash(lines, n + 1)
    ELSE lines[n]

\* the introducer of declaration chunk k names nothing
PyUnparseable(k) ==
    LET line == LStrip(FirstNonHash(SplitLines(DeclChunk(k).text), 1))
    IN  KeywordName(line, W_class) = <<>> /\ PyDefName(line) = <<>>

\* C22 as stated: in chunk_python a declaration chunk whose introducer cannot be
\* parsed into a name is emitted with an empty symbol and symbol_type unknown.
C22_EmptySymbol ==
    (pc = "chunked" /\ IsPyFile /\ boundaries /= <<>>) =>
        \A k \in 1..Len(boundaries) :
            PyUnparseable(k) =>
                DeclChunk(k).symbol = <<>> /\ DeclChunk(k).symbol_type = "unknown"

\* C22 amended: in chunk_python a declaration chunk whose introducer cannot be
\* parsed into a name is emitted with the placeholder symbol decl_<index>, the
\* index being the declaration's position among the boundaries counted from 0,
\* and symbol_type unknown.
C22_PlaceholderSymbol ==
    (pc = "chunked" /\ IsPyFile /\ boundaries /= <<>>) =>
        \A k \in 1..Len(boundaries) :
            PyUnparseable(k) =>
                /\ DeclChunk(k).symbol = W_decl_ \o DecStr(k - 1)
                /\ DeclChunk(k).symbol_type = "unknown"

C22_Witness ==
    /\ pc = "chunked"
    /\ IsPyFile
    /\ Len(boundaries) = 2
    /\ Len(tagged) = 2
    /\ PyUnparseable(2)
    /\ ~PyUnparseable(1)
    /\ tagged[2].symbol = W_decl_ \o <<"1">>

\* ---- C23
IsMdFile == ChunkType(filepath) = "markdown"

W_fence == <<BackQuote, BackQuote, BackQuote>>

IsFence(line) == StartsWithAt(LStrip(line), 0, W_fence)

\* the number of fence lines among the first n lines
FencesUpTo(lines, n) == Cardinality({m \in 1..n : IsFence(lines[m])})

\* line n lies in a fenced code block: it is a fence, or an opening fence before it
\* is not closed yet
InFence(lines, n) == IsFence(lines[n]) \/ FencesUpTo(lines, n - 1) % 2 = 1

\* the H1/H2 heading lines outside the code blocks, before line n
HeadingsBefore(lines, n) == {m \in 1..(n - 1) : MdIsHeading(lines[m]) /\ ~InFence(lines, m)}

\* the heading in force at line n: the last heading outside a code block, or the path
HeadingAt(lines, n) ==
    IF HeadingsBefore(lines, n) = {} THEN filepath
    ELSE MdHeadingText(lines[Greatest(HeadingsBefore(lines, n))])

\* C23: chunk_markdown keeps code blocks with their heading: every line of a
\* fenced code block belongs to the chunk of the H1/H2 heading that precedes the
\* block, and a line inside the block that begins with "# " or "## " neither
\* starts a new chunk nor changes the heading.
C23_CodeBlocksKept ==
    (pc = "chunked" /\ IsMdFile) =>
        LET lines == SplitLines(text)
        IN  /\ Len(tagged) <= 1 + Cardinality(HeadingsBefore(lines, Len(lines) + 1))
            /\ \A c \in 1..Len(tagged) :
                   \E n \in 1..(Len(lines) + 1) : tagged[c].heading = HeadingAt(lines, n)
            /\ \A n \in 1..Len(lines) :
                   (InFence(lines, n) /\ Strip(lines[n]) /= <<>>) =>
                       \E c \in 1..Len(tagged) :
                           /\ tagged[c].heading = HeadingAt(lines, n)
                           /\ Contains(tagged[c].text, Strip(lines[n]))

\* ---- C24
IsGenericFile == ChunkType(filepath) = "generic"

\* C24: every chunk chunk_generic emits that holds more than one line satisfies
\* count_tokens(text) <= CHUNK_MAX_TOKENS; only a chunk made of a single over-long
\* line may exceed the budget.
C24_TokenBudget ==
    (pc = "chunked" /\ IsGenericFile) =>
        \A c \in 1..Len(tagged) :
            Len(SplitLines(tagged[c].text)) > 1 =>
                count_tokens(tagged[c].text) <= CHUNK_MAX_TOKENS

\* ---- C25
\* thread t is inside the locked region of an operation
InCritical(t) == threads[t].pc \in {"get", "check", "del", "set", "clear", "release"}

\* thread t has finished the body of a get and is about to leave it
GetDone(t) == threads[t].pc = "release" /\ threads[t].op = "get"

\* C25: _TTLCache is thread-safe and respects the TTL: the operations of
\* concurrent threads exclude one another, and get(k) returns the value of the
\* most recent set(k) exactly when that set happened at most ttl earlier and no
\* clear followed it; otherwise get(k) returns None and no entry of k is left in
\* the store.
C25_CacheAtomicTtl ==
    (threads /= <<>>) =>
        /\ \A t \in Threads : InCritical(t) => _lock = t
        /\ \A t \in Threads :
               GetDone(t) =>
                   LET recent == last_set[threads[t].key]
                   IN  IF threads[t].ret /= "None"
                       THEN /\ recent /= NoEntry
                            /\ threads[t].ret = recent.val
                            /\ threads[t].t_now - recent.ts <= default_ttl
                       ELSE /\ recent = NoEntry \/ now - recent.ts > default_ttl
                            /\ _store[threads[t].key] = NoEntry

C25_Witness ==
    /\ threads /= <<>>
    /\ \E t \in Threads :
           /\ GetDone(t)
           /\ threads[t].ret = "v2"
           /\ threads[t].t_now - last_set[threads[t].key].ts = default_ttl
           /\ \E u \in Threads : threads[u].pc = "acquire" /\ threads[u].op = "set"

\* ---- C26
\* the token carries a payload that decodes to an object with a numeric exp
HasExpiry(tok) == tok.segments >= 2 /\ tok.kind = "exp"

\* C26: _token_is_expired returns True if the token is expired (its exp is earlier
\* than the current time) or unparseable (no decodable payload or no exp claim)
\* and False only for a token whose exp is not yet reached; get_argocd_token
\* never returns a token it could not verify as unexpired without having tried
\* a refresh.
C26_ExpiredOrUnparseable ==
    /\ (pc \in {"check", "recheck"} /\ ~ExpiryCheckRaises(token)) =>
           (_token_is_expired(token, now) <=> (~HasExpiry(token) \/ token.exp < now))
    /\ (pc = "returned" /\ ~refreshed) => HasExpiry(token)

\* ---- C27
\* C27: in index_repo the stored commit SHA is advanced to head_sha only as the
\* last step: after the loop over the eligible files has ended and every batch
\* was upserted (or when no changed file is eligible); if any step raises, the
\* stored SHA keeps the value it had.
C27_ShaSavedLast ==
    (head_tree /= <<>>) =>
        /\ last_sha /= old_sha =>
               /\ pc = "finished"
               /\ last_sha = HeadSha
               /\ todo = <<>>
               /\ batch_i >= Len(run_metadata)
               /\ \A n \in 1..Len(run_metadata) : run_metadata[n] \in points
        /\ pc = "raised" => last_sha = old_sha

C27_Witness ==
    /\ pc = "raised"
    /\ head_tree /= <<>>
    /\ old_sha = PrevSha
    /\ last_sha = PrevSha
    /\ batch_i = batch_size
    /\ Len(run_metadata) > batch_size
    /\ run_metadata[1] \in points

\* ---- C28
\* C28: when index_repo completes for a repository whose HEAD differs from the
\* last indexed commit, the store holds no chunk point of a changed file other
\* than points built from the file's content at HEAD; a file that was deleted or
\* became blank has no points left.
C28_NoStalePoints ==
    (pc = "finished" /\ head_tree /= <<>>) =>
        \A p \in points :
            /\ p.commit_sha = HeadSha
            /\ p.chunk_index < head_tree[p.filepath].chunks

\* ---- C29
\* C29: _embed_single is a bounded retry: a call issues at most RETRY_MAX POST
\* requests, retries only after a non-200 status or a request/KeyError failure on
\* an attempt before the last, and ends either by returning the first embedding
\* of a successful response or by raising after the last failed attempt; it never
\* returns an empty vector.
C29_BoundedRetry ==
    (attempt >= 1) =>
        /\ Len(posts) <= RETRY_MAX
        /\ (pc = "post" /\ attempt > 1) =>
               /\ attempt <= RETRY_MAX
               /\ resp.status /= "200" \/ resp.body \in {"no_key", "not_json"}
        /\ pc = "returned" => result = "embedding"
        /\ pc = "raised" => attempt = RETRY_MAX

\* ---- C30
\* C30: the character scan of chunk_go terminates on every finite input: each
\* iteration of the main loop advances i by at least one and never moves it
\* backward, the loop ends when i >= len(text), and the backward doc-comment
\* walk strictly decreases j on every step until it stops.
C30_ScanTerminates ==
    /\ [][pc = "scan" => (IF pc' = "scan" THEN i' >= i + 1 ELSE i' = i /\ i >= Len(text))]_vars
    /\ [](pc = "scan" => \A j \in 0..(i - 1) : GoWalkNextJ(text, j) < j)
    /\ <>(pc = "scanned")

\* the scan has ended on a text whose declaration took the comment above it
C30_Witness ==
    /\ pc = "scanned"
    /\ i >= Len(text)
    /\ Len(boundaries) = 1
    /\ boundaries[1] = 0
    /\ ~GoIsDecl(text, 0)
    /\ in_block_comment

====
